---- MODULE Spec2Model ----
(***************************************************************************)
(* QUICinput: a client captures keyboard and mouse input with a global     *)
(* hook and forwards it over two QUIC unidirectional streams to a server   *)
(* that replays it.  This module models the client's capture loop          *)
(* (key_monitor.rs), its forwarder worker (quic_helper_thread.rs) and the  *)
(* GTK views that own the connection (main.rs, input.rs, connect.rs).      *)
(***************************************************************************)
EXTENDS Integers, Sequences, FiniteSets, TLC

\* ------------------------------------------------------------------ bounds
\* Capture threads that can be spawned in one run.
MaxThreads == 2
\* Commands that may wait in a forwarder channel when an event arrives
\* (the channel itself is unbounded).
MaxQueue == 0
\* Resets and shutdowns (generation bumps) in one run.
MaxResets == 2
\* Connect attempts in one run.
MaxAttempts == 2
\* Raw mouse samples the user produces in one run.
MaxSamples == 3
\* Mouse-class frames one callback forwards in one run.
MaxFrames == 1
\* Permits of the server's connection limit.
MaxPermits == 1
\* Chunks a peer writes on the streams of one session.
MaxChunks == 2

Threads == 1..MaxThreads
Attempts == 1..MaxAttempts
\* Threads that call start_capture concurrently.
Callers == {"c1", "c2"}

\* rdev::Key values: the two tracked modifiers, the two hotkey keys, and
\* one representative of every other key.
Keys == {"ControlLeft", "Alt", "Num0", "Kp0", "KeyA"}
\* The keys of the disconnect chord as the user types it.
ChordKeys == {"ControlLeft", "Alt", "Num0"}
\* The keys whose state decides the hotkey.
ModifierKeys == {"ControlLeft", "Alt"}

\* ------------------------------------------------------------------- state
VARIABLES
    \* --- InputView / AppController (UI thread)
    connection,      \* InputViewInner.connection: 0 is None, else a connection id
    closeCalls,      \* per connection id: close_client calls spawned on it
    uiGrabbed,       \* cursor hidden and INFO_CAPTURE_ACTIVE shown
    invokeQueue,     \* closures queued on the glib main context by capture threads
    page,            \* visible child of the stack: "connect" or "input"
    \* --- ConnectView
    session_id,      \* ConnectView.session_id (the generation)
    attempt,         \* per connect attempt: state, session_marker, outcome
    status,          \* status row: "hidden" or the message shown
    spinner,         \* spinner row visible
    sensitive,       \* enter button and entries sensitive
    handlerCalls,    \* observer: on_success handler invocations
    \* --- key_monitor.rs statics
    MONITOR_RUNNING,
    IGNORE_MOUSE,
    \* --- callers of start_global_key_monitor
    caller,          \* "idle", or "spawning" between the compare_exchange and thread::spawn
    \* --- capture threads
    thread,          \* "unused" | "spawned" | "grabbing" | "returned" | "done"
    result,          \* how run_key_monitor ended: "none" | "ok" | "stop" | "panic"
    modifiers,       \* ModifierState of the thread's callback
    quic_sender,     \* the callback's Option<QuicSender>: TRUE is Some
    heldKeys,        \* observer: modifier keys down per the press/release events seen
    \* --- forwarder channel and worker (one per capture thread)
    chan,            \* commands sent and not yet received
    worker,          \* "none" | "open_mouse" | "open_keyboard" | "recv" | "exited"
    mouse_stream,    \* "none" | "open" | "failed" | "finished" | "dropped"
    keyboard_stream,
    \* --- OS mouse event queue seen by the hook
    osQueue,         \* samples not yet delivered: "real" or "echo"
    realSeen,        \* observer: real samples delivered to the callback
    deltasSent,      \* observer: MouseDelta commands the callback emitted
    loopSeen,        \* observer: real samples delivered to each capture thread's callback
    \* --- step labels
    lastEvent,       \* observer: the event or call handled in the last step, if any
    lastWrite,       \* observer: the write a worker attempted in the last step, if any
    \* --- the connection's unidirectional streams (per capture thread and class)
    wire,            \* frames written by the client and not yet read by the server
    written,         \* observer: every frame the client wrote on the stream, in order
    \* --- server: handle_uni_stream per stream, the simulators, the device
    reader,          \* "none" | "reading" | "ended" (end-of-stream) | "failed" (read error)
    keyboardQueue,   \* simulators[0]: events enqueued and not yet simulated
    buttonQueue,     \* simulators[1]
    injected,        \* observer: every event simulators[0] has simulated, in order
    moves,           \* relative moves emitted on the virtual mouse: their number and the last one
    simulators,      \* per EventSimulator thread: the event inside simulate(), and whether
                     \* its loop is still running
    attempts,        \* observer: every simulate() call that returned: queue, event, outcome
    \* --- server: run_server's accept loop and handle_connection per connection
    permits,         \* permits available in connection_limit
    incomingQueue,   \* connections the endpoint has received and accept() has not returned
    held,            \* the incoming the accept loop holds while it acquires a permit, or 0
    stage,           \* "none" | "incoming" | "waiting" | "handshake" | "await_bi" |
                     \* "await_uni" | "await_close" | "done"
    tasks,           \* per connection: bi, uni, close task: "none" | "running" | "done" | "panicked"
    closed,          \* the connection is closed (by the peer, locally or by an error)
    released,        \* observer: times handle_connection dropped the connection's permit
    waited,          \* observer: the connection arrived at acquire with no permit available
    \* --- server: handle_bi_stream, for one bidirectional stream per connection
    biStream         \* the handler's position ("none" | "reading" | "ack" | "done" | "failed"),
                     \* the chunks it has read, whether a read failed, the acknowledgements
                     \* written, send side finished

uiVars      == <<connection, closeCalls, uiGrabbed, invokeQueue, page>>
connectVars == <<session_id, attempt, status, spinner, sensitive, handlerCalls>>
monitorVars == <<MONITOR_RUNNING, caller, thread, result>>
captureVars == <<modifiers, quic_sender, heldKeys>>
workerVars  == <<chan, worker, mouse_stream, keyboard_stream>>
mouseVars   == <<IGNORE_MOUSE, osQueue, realSeen, deltasSent, loopSeen>>
labelVars   == <<lastEvent, lastWrite>>
streamVars  == <<wire, written>>
replayVars  == <<reader, keyboardQueue, buttonQueue, injected, moves>>
admissionVars == <<permits, incomingQueue, held, stage, tasks, closed, released, waited>>
simulatorVars == <<simulators, attempts>>
biVars      == <<biStream>>
serverVars  == <<streamVars, replayVars, admissionVars, simulatorVars, biVars>>

vars == <<uiVars, connectVars, monitorVars, captureVars, workerVars, mouseVars, labelVars,
          serverVars>>

NoEvent == [thread |-> 0, kind |-> "none", key |-> "none"]
NoWrite == [thread |-> 0, class |-> "none", ok |-> TRUE]
Handled(t, kind, key) == [thread |-> t, kind |-> kind, key |-> key]
Written(t, class, ok) == [thread |-> t, class |-> class, ok |-> ok]
\* start_capture returned: whether the monitor reported it started.
Started(started) ==
    [thread |-> 0, kind |-> "start_capture",
     key |-> IF started THEN "started" ELSE "not_started"]
\* start_capture returned at once because no connection is stored.
NotStarted == [thread |-> 0, kind |-> "start_capture", key |-> "no_connection"]
\* A step that handles no input event and attempts no write.
NoLabels == lastEvent' = NoEvent /\ lastWrite' = NoWrite

\* ------------------------------------------------------------ wire frames
\* rmp_serde::to_vec(&event.event_type): an externally tagged enum, a
\* one-entry map from the variant name to its content.
EncodeEvent(kind, arg) == <<"map", kind, arg>>
\* rmp_serde::to_vec(&MouseMove {dx, dy}): a struct, written as an array.
EncodeMouseMove(dx, dy) == <<"array", dx, dy>>

\* QuicCommand
Keyboard(buf) == [cmd |-> "Keyboard", buf |-> buf]
Mouse(buf)    == [cmd |-> "Mouse", buf |-> buf]
Shutdown      == [cmd |-> "Shutdown", buf |-> <<>>]

\* ------------------------------------------------------- ModifierState
\* ModifierState::default()
DefaultModifiers == [ctrl_left |-> FALSE, alt_left |-> FALSE]

\* ModifierState::update
update(state, key, pressed) ==
    CASE key = "ControlLeft" -> [state EXCEPT !.ctrl_left = pressed]
      [] key = "Alt"         -> [state EXCEPT !.alt_left = pressed]
      [] OTHER               -> state

\* ModifierState::ctrl_alt_active
ctrl_alt_active_either(state) == state.ctrl_left \/ state.alt_left
ctrl_alt_active(state) == state.ctrl_left /\ state.alt_left

\* matches!(key, Key::Num0 | Key::Kp0)
IsHotkeyKey(key) == key \in {"Num0", "Kp0"}

\* ------------------------------------------------------------ send_data
\* The channel after send_data(quic_sender, command): a send on a channel
\* whose receiver is gone fails and queues nothing.
ChanAfterSend_Lost(t, queue, sender, command) == queue
ChanAfterSend(t, queue, sender, command) ==
    IF sender /\ worker[t] # "exited" THEN Append(queue, command) ELSE queue

\* The Option<QuicSender> after send_data: a failed send drops the sender.
SenderAfterSend_Kept(t, sender) == sender
SenderAfterSend(t, sender) ==
    IF sender /\ worker[t] = "exited" THEN FALSE ELSE sender

\* --------------------------------------------- start_global_key_monitor
\* MONITOR_RUNNING.compare_exchange(false, true, ..).is_err()
already_running_unchecked(flag) == FALSE
already_running(flag) == flag # FALSE

UnusedThreads == {t \in Threads : thread[t] = "unused"}
Spawning == {c \in Callers : caller[c] = "spawning"}

\* start_capture's test of the stored connection: None returns at once.
HasConnection_Always(stored) == TRUE
HasConnection(stored) == stored # 0

\* InputViewInner::start_capture, up to the compare_exchange of
\* start_global_key_monitor: no stored connection returns early; the cursor
\* is hidden first; a caller that finds a loop running returns without
\* spawning and start_capture restores the cursor.
StartCapture(c) ==
    /\ caller[c] = "idle"
    /\ IF ~HasConnection(connection)
       THEN /\ lastEvent' = NotStarted
            /\ UNCHANGED <<uiGrabbed, MONITOR_RUNNING, caller>>
       ELSE /\ Cardinality(UnusedThreads) > Cardinality(Spawning)
            /\ IF already_running(MONITOR_RUNNING)
               THEN /\ uiGrabbed' = FALSE
                    /\ lastEvent' = Started(FALSE)
                    /\ UNCHANGED <<MONITOR_RUNNING, caller>>
               ELSE /\ uiGrabbed' = TRUE
                    /\ lastEvent' = Started(TRUE)
                    /\ MONITOR_RUNNING' = TRUE
                    /\ caller' = [caller EXCEPT ![c] = "spawning"]
    /\ lastWrite' = NoWrite
    /\ UNCHANGED <<connection, closeCalls, invokeQueue, page, thread, result>>
    /\ UNCHANGED <<connectVars, captureVars, workerVars, mouseVars, serverVars>>

\* thread::spawn in start_global_key_monitor: the winner of the flag
\* creates the capture thread.
SpawnThread(c) ==
    /\ caller[c] = "spawning"
    /\ UnusedThreads # {}
    /\ LET t == CHOOSE u \in UnusedThreads : \A v \in UnusedThreads : u <= v
       IN  thread' = [thread EXCEPT ![t] = "spawned"]
    /\ caller' = [caller EXCEPT ![c] = "idle"]
    /\ NoLabels
    /\ UNCHANGED <<MONITOR_RUNNING, result>>
    /\ UNCHANGED <<uiVars, connectVars, captureVars, workerVars, mouseVars, serverVars>>

\* run_key_monitor up to grab(): the forwarder is spawned with a fresh
\* channel, the modifier state is created, and the hook is installed or
\* grab() returns an error, which is logged and ends run_key_monitor
\* (dropping the callback and its sender).
RunKeyMonitor(t, hooked) ==
    /\ thread[t] = "spawned"
    /\ worker' = [worker EXCEPT ![t] = "open_mouse"]
    /\ chan' = [chan EXCEPT ![t] = <<>>]
    /\ modifiers' = [modifiers EXCEPT ![t] = DefaultModifiers]
    /\ heldKeys' = [heldKeys EXCEPT ![t] = {}]
    /\ IF hooked
       THEN /\ thread' = [thread EXCEPT ![t] = "grabbing"]
            /\ quic_sender' = [quic_sender EXCEPT ![t] = TRUE]
            /\ UNCHANGED result
       ELSE /\ thread' = [thread EXCEPT ![t] = "returned"]
            /\ quic_sender' = [quic_sender EXCEPT ![t] = FALSE]
            /\ result' = [result EXCEPT ![t] = "ok"]
    /\ NoLabels
    /\ UNCHANGED <<MONITOR_RUNNING, caller, mouse_stream, keyboard_stream>>
    /\ UNCHANGED <<uiVars, connectVars, mouseVars, serverVars>>

\* The flag after run_key_monitor ended with `res`: the store is made
\* before the result is looked at.
FlagAfterRun_OkOnly(res, flag) == IF res = "ok" THEN FALSE ELSE flag
FlagAfterRun(res, flag) == FALSE

\* The capture thread's closure after catch_unwind: clear the flag, then
\* log or resume the unwind; the thread ends either way.
ThreadFinish(t) ==
    /\ thread[t] = "returned"
    /\ MONITOR_RUNNING' = FlagAfterRun(result[t], MONITOR_RUNNING)
    /\ thread' = [thread EXCEPT ![t] = "done"]
    /\ result' = [result EXCEPT ![t] = "none"]
    /\ NoLabels
    /\ UNCHANGED <<caller>>
    /\ UNCHANGED <<uiVars, connectVars, captureVars, workerVars, mouseVars, serverVars>>

\* ------------------------------------------------------ capture callback
\* Whether the callback reaches request_monitor_stop on a press of `key`
\* with the modifier state `state` (already updated for this press).
HotkeyDetected(state, key) == ctrl_alt_active(state) /\ IsHotkeyKey(key)

\* The channel after the KeyPress arm's first send_data: the serialised
\* press goes to the forwarder before the hotkey is looked for.
ChanAfterPress(t, key) ==
    ChanAfterSend(t, chan[t], quic_sender[t], Keyboard(EncodeEvent("KeyPress", key)))

\* The callback's Option<QuicSender> after quic_sender.take(): None.
SenderAfterTake_Kept(sender) == sender
SenderAfterTake(sender) == FALSE

\* EventType::KeyPress(key): the press is serialised and sent, the modifier
\* state updated, and on Ctrl+Alt+0 the sender is taken, Shutdown sent on
\* it, the UI callback queued and the loop stopped (by unwinding with
\* MonitorStop, or by stopping the run loop on macOS), which drops the
\* callback and its state.
KeyPressArm(t, key) ==
    /\ thread[t] = "grabbing"
    /\ LET chan1  == ChanAfterPress(t, key)
           send1  == SenderAfterSend(t, quic_sender[t])
           state  == update(modifiers[t], key, TRUE)
       IN  IF HotkeyDetected(state, key)
           THEN /\ chan' = [chan EXCEPT ![t] = ChanAfterSend(t, chan1, send1, Shutdown)]
                /\ quic_sender' = [quic_sender EXCEPT ![t] = SenderAfterTake(send1)]
                /\ invokeQueue' = invokeQueue + 1
                /\ thread' = [thread EXCEPT ![t] = "returned"]
                /\ result' = [result EXCEPT ![t] = "stop"]
                /\ modifiers' = [modifiers EXCEPT ![t] = DefaultModifiers]
                /\ heldKeys' = [heldKeys EXCEPT ![t] = {}]
           ELSE /\ chan' = [chan EXCEPT ![t] = chan1]
                /\ quic_sender' = [quic_sender EXCEPT ![t] = send1]
                /\ modifiers' = [modifiers EXCEPT ![t] = state]
                /\ heldKeys' = [heldKeys EXCEPT ![t] = @ \cup ({key} \cap ModifierKeys)]
                /\ UNCHANGED <<invokeQueue, thread, result>>
    /\ lastEvent' = Handled(t, "KeyPress", key)
    /\ lastWrite' = NoWrite
    /\ UNCHANGED <<connection, closeCalls, uiGrabbed, page>>
    /\ UNCHANGED <<MONITOR_RUNNING, caller>>
    /\ UNCHANGED <<worker, mouse_stream, keyboard_stream>>
    /\ UNCHANGED <<connectVars, mouseVars, serverVars>>

\* EventType::KeyRelease(key): the release is serialised and sent and the
\* modifier state updated.
KeyReleaseArm(t, key) ==
    /\ thread[t] = "grabbing"
    /\ chan' = [chan EXCEPT ![t] = ChanAfterSend(t, chan[t], quic_sender[t],
                                     Keyboard(EncodeEvent("KeyRelease", key)))]
    /\ quic_sender' = [quic_sender EXCEPT ![t] = SenderAfterSend(t, quic_sender[t])]
    /\ modifiers' = [modifiers EXCEPT ![t] = update(@, key, FALSE)]
    /\ heldKeys' = [heldKeys EXCEPT ![t] = @ \ {key}]
    /\ lastEvent' = Handled(t, "KeyRelease", key)
    /\ lastWrite' = NoWrite
    /\ UNCHANGED <<worker, mouse_stream, keyboard_stream>>
    /\ UNCHANGED <<uiVars, connectVars, monitorVars, mouseVars, serverVars>>

\* The hook hands the callback a key press or release while at most
\* MaxQueue commands wait in its forwarder's channel.
KeyPress(t, key) == Len(chan[t]) <= MaxQueue /\ KeyPressArm(t, key)
KeyRelease(t, key) == Len(chan[t]) <= MaxQueue /\ KeyReleaseArm(t, key)

\* The same events handed over while one more command waits: the
\* forwarder is behind, its write in progress or blocked.
KeyPressBehind(t, key) == Len(chan[t]) <= MaxQueue + 1 /\ KeyPressArm(t, key)
KeyReleaseBehind(t, key) == Len(chan[t]) <= MaxQueue + 1 /\ KeyReleaseArm(t, key)

\* An event that still reaches the callback after it asked the loop to
\* stop (on macOS request_monitor_stop stops the run loop and the callback
\* returns; the hook stays until grab() has returned): whichever arm
\* handles it, its send_data goes through the callback's Option<QuicSender>.
LateEvent(t, kind, arg) ==
    /\ thread[t] = "returned"
    /\ result[t] = "stop"
    /\ LET command == IF kind \in {"KeyPress", "KeyRelease"}
                      THEN Keyboard(EncodeEvent(kind, arg))
                      ELSE Mouse(EncodeEvent(kind, arg))
       IN  chan' = [chan EXCEPT ![t] = ChanAfterSend(t, chan[t], quic_sender[t], command)]
    /\ quic_sender' = [quic_sender EXCEPT ![t] = SenderAfterSend(t, quic_sender[t])]
    /\ lastEvent' = Handled(t, kind, arg)
    /\ lastWrite' = NoWrite
    /\ UNCHANGED <<modifiers, heldKeys, worker, mouse_stream, keyboard_stream>>
    /\ UNCHANGED <<uiVars, connectVars, monitorVars, mouseVars, serverVars>>

\* A panic in the callback other than MonitorStop (an expect() failing):
\* the unwind drops the callback and its sender and is caught by
\* catch_unwind in the thread's closure.
CallbackPanic(t) ==
    /\ thread[t] = "grabbing"
    /\ thread' = [thread EXCEPT ![t] = "returned"]
    /\ result' = [result EXCEPT ![t] = "panic"]
    /\ quic_sender' = [quic_sender EXCEPT ![t] = FALSE]
    /\ modifiers' = [modifiers EXCEPT ![t] = DefaultModifiers]
    /\ heldKeys' = [heldKeys EXCEPT ![t] = {}]
    /\ NoLabels
    /\ UNCHANGED <<MONITOR_RUNNING, caller>>
    /\ UNCHANGED <<uiVars, connectVars, workerVars, mouseVars, serverVars>>

\* The user moves the mouse while a hook is installed: the OS queues a
\* sample for the callback.
RealSamples == realSeen + Cardinality({i \in 1..Len(osQueue) : osQueue[i] = "real"})
UserMovesMouse ==
    /\ \E t \in Threads : thread[t] = "grabbing"
    /\ RealSamples < MaxSamples
    /\ osQueue' = Append(osQueue, "real")
    /\ NoLabels
    /\ UNCHANGED <<IGNORE_MOUSE, realSeen, deltasSent, loopSeen>>
    /\ UNCHANGED <<uiVars, connectVars, monitorVars, captureVars, workerVars, serverVars>>

\* x - middle_x of a sample: the re-centering move lands on the centre.
DeltaOf(sample) == IF sample = "real" THEN 1 ELSE 0

\* EventType::MouseMove: IGNORE_MOUSE.swap(false) swallows the sample if
\* the flag was set; otherwise the delta is sent, the flag is set and
\* simulate() moves the cursor back, whose result is ignored: `echo` says
\* whether the OS then queues a sample for that move.
MouseMoveArm(t, echo) ==
    /\ thread[t] = "grabbing"
    /\ osQueue # <<>>
    /\ LET sample == Head(osQueue)
           seen   == IF sample = "real" THEN realSeen + 1 ELSE realSeen
       IN  /\ realSeen' = seen
           /\ loopSeen' = [loopSeen EXCEPT ![t] = IF sample = "real" THEN @ + 1 ELSE @]
           /\ lastEvent' = Handled(t, "MouseMove", sample)
           /\ IF IGNORE_MOUSE
              THEN /\ echo
                   /\ IGNORE_MOUSE' = FALSE
                   /\ osQueue' = Tail(osQueue)
                   /\ UNCHANGED <<deltasSent, chan, quic_sender>>
              ELSE /\ chan' = [chan EXCEPT ![t] = ChanAfterSend(t, chan[t], quic_sender[t],
                                  Mouse(EncodeMouseMove(DeltaOf(sample), DeltaOf(sample))))]
                   /\ quic_sender' = [quic_sender EXCEPT ![t] = SenderAfterSend(t, quic_sender[t])]
                   /\ deltasSent' = deltasSent + 1
                   /\ IGNORE_MOUSE' = TRUE
                   /\ osQueue' = IF echo THEN Append(Tail(osQueue), "echo")
                                         ELSE Tail(osQueue)
    /\ lastWrite' = NoWrite
    /\ UNCHANGED <<modifiers, heldKeys, worker, mouse_stream, keyboard_stream>>
    /\ UNCHANGED <<uiVars, connectVars, monitorVars, serverVars>>

\* The hook hands the callback a mouse sample while at most MaxQueue
\* commands wait in its forwarder's channel.
MouseMove(t, echo) == Len(chan[t]) <= MaxQueue /\ MouseMoveArm(t, echo)

\* The same sample handed over while one more command waits.
MouseMoveBehind(t, echo) == Len(chan[t]) <= MaxQueue + 1 /\ MouseMoveArm(t, echo)

\* EventType::ButtonPress(..) | EventType::ButtonRelease(..): the event is
\* serialised and sent as a Mouse command.
ButtonArm(t, kind, button) ==
    /\ thread[t] = "grabbing"
    /\ kind \in {"ButtonPress", "ButtonRelease"}
    /\ chan' = [chan EXCEPT ![t] = ChanAfterSend(t, chan[t], quic_sender[t],
                                     Mouse(EncodeEvent(kind, button)))]
    /\ quic_sender' = [quic_sender EXCEPT ![t] = SenderAfterSend(t, quic_sender[t])]
    /\ lastEvent' = Handled(t, kind, button)
    /\ lastWrite' = NoWrite
    /\ UNCHANGED <<modifiers, heldKeys, worker, mouse_stream, keyboard_stream>>
    /\ UNCHANGED <<uiVars, connectVars, monitorVars, mouseVars, serverVars>>

\* delta_x != 0 || delta_y != 0
WheelForwarded_Always(delta_x, delta_y) == TRUE
WheelForwarded(delta_x, delta_y) == delta_x # 0 \/ delta_y # 0

\* EventType::Wheel { delta_x, delta_y }: serialised and sent as a Mouse
\* command unless both deltas are zero.
WheelArm(t, delta_x, delta_y) ==
    /\ thread[t] = "grabbing"
    /\ IF WheelForwarded(delta_x, delta_y)
       THEN /\ chan' = [chan EXCEPT ![t] = ChanAfterSend(t, chan[t], quic_sender[t],
                                 Mouse(EncodeEvent("Wheel", <<delta_x, delta_y>>)))]
            /\ quic_sender' = [quic_sender EXCEPT ![t] = SenderAfterSend(t, quic_sender[t])]
       ELSE UNCHANGED <<chan, quic_sender>>
    /\ lastEvent' = Handled(t, "Wheel", <<delta_x, delta_y>>)
    /\ lastWrite' = NoWrite
    /\ UNCHANGED <<modifiers, heldKeys, worker, mouse_stream, keyboard_stream>>
    /\ UNCHANGED <<uiVars, connectVars, monitorVars, mouseVars, serverVars>>

\* The hook hands the callback a button or wheel event while at most
\* MaxQueue commands wait in its forwarder's channel.
Button(t, kind, button) == Len(chan[t]) <= MaxQueue /\ ButtonArm(t, kind, button)
Wheel(t, delta_x, delta_y) == Len(chan[t]) <= MaxQueue /\ WheelArm(t, delta_x, delta_y)

\* ------------------------------------------------------------- UI thread
\* The closure request_monitor_stop queued on the main context runs
\* (input_ungrabbed; in input.rs the closure handed to the monitor): the
\* cursor and the status text are restored.
input_ungrabbed ==
    /\ invokeQueue > 0
    /\ invokeQueue' = invokeQueue - 1
    /\ uiGrabbed' = FALSE
    /\ NoLabels
    /\ UNCHANGED <<connection, closeCalls, page>>
    /\ UNCHANGED <<connectVars, monitorVars, captureVars, workerVars, mouseVars, serverVars>>

\* AppController::shutdown_connection: close_client is spawned on the
\* connection taken from the input view, if there was one.
CloseCallsAfterShutdown(conn, calls) ==
    IF conn # 0 THEN [calls EXCEPT ![conn] = @ + 1] ELSE calls

\* The stored connection after AppController::shutdown: taken by
\* shutdown_connection (InputView::take_connection) and again by
\* InputView::reset.
StoredAfterShutdown_Kept(conn) == conn
StoredAfterShutdown(conn) == 0

\* ConnectView::bump_session (a wrapping add on u64, never wrapping within
\* MaxResets)
bump_session(id) == id + 1

\* AppController::shutdown: shutdown_connection, InputView::reset
\* (mark_ungrabbed), ConnectView::reset.
ShutdownEffects ==
    /\ session_id < MaxResets
    /\ closeCalls' = CloseCallsAfterShutdown(connection, closeCalls)
    /\ connection' = StoredAfterShutdown(connection)
    /\ uiGrabbed' = FALSE
    /\ session_id' = bump_session(session_id)
    /\ status' = "hidden"
    /\ spinner' = FALSE
    /\ sensitive' = TRUE
    /\ NoLabels
    /\ UNCHANGED <<invokeQueue, attempt, handlerCalls>>
    /\ UNCHANGED <<monitorVars, captureVars, workerVars, mouseVars, serverVars>>

\* AppController::shutdown as run by the quit action, the application's
\* shutdown signal and the window's close request.
shutdown == ShutdownEffects /\ UNCHANGED page

\* AppController::reset (the "app.reset" action of the Disconnect button):
\* shutdown, then the connect page is shown.
reset == ShutdownEffects /\ page' = "connect"

\* ------------------------------------------------------------ ConnectView
\* The enter button's validation of the two entries, each empty, unparseable
\* or valid: the message shown, or "none".
ValidationMessage(ip, port) ==
    IF ip = "empty" THEN "IP address is required"
    ELSE IF port = "empty" THEN "Port is required"
    ELSE IF port = "bad" THEN "Invalid port number"
    ELSE IF ip = "bad" THEN "Invalid IP address"
    ELSE "none"

EntryTexts == {"empty", "bad", "ok"}
UnusedAttempts == {a \in Attempts : attempt[a].state = "unused"}

\* enter_button.connect_clicked: the status is hidden, the entries are
\* validated, and for a valid address the spinner is shown, the controls
\* are made insensitive and run_client is spawned with the current
\* generation as its marker.
ClickEnter(ip, port) ==
    /\ page = "connect"
    /\ sensitive
    /\ IF ValidationMessage(ip, port) # "none"
       THEN /\ status' = ValidationMessage(ip, port)
            /\ UNCHANGED <<attempt, spinner, sensitive>>
       ELSE /\ UnusedAttempts # {}
            /\ LET a == CHOOSE u \in UnusedAttempts : \A v \in UnusedAttempts : u <= v
               IN  attempt' = [attempt EXCEPT ![a] =
                       [state |-> "inflight", marker |-> session_id, outcome |-> "none"]]
            /\ status' = "hidden"
            /\ spinner' = TRUE
            /\ sensitive' = FALSE
    /\ NoLabels
    /\ UNCHANGED <<session_id, handlerCalls>>
    /\ UNCHANGED <<uiVars, monitorVars, captureVars, workerVars, mouseVars, serverVars>>

\* session_id_async.get() != session_marker
StaleResult_Never(marker, current) == FALSE
StaleResult(marker, current) == current # marker

Outcomes == {"ok", "err", "join_err"}

\* The future spawned on the main context resumes with run_client's
\* result: a stale result returns at once; otherwise the spinner is
\* hidden, the controls are made sensitive, and a success calls the
\* handler (handle_connected: set_connection, show_input) while a failure
\* shows its message.
ConnectResult(a, outcome) ==
    /\ attempt[a].state = "inflight"
    /\ attempt' = [attempt EXCEPT ![a].state = "done", ![a].outcome = outcome]
    /\ IF StaleResult(attempt[a].marker, session_id)
       THEN UNCHANGED <<status, spinner, sensitive, handlerCalls, connection, page>>
       ELSE /\ spinner' = FALSE
            /\ sensitive' = TRUE
            /\ IF outcome = "ok"
               THEN /\ status' = "hidden"
                    /\ handlerCalls' = handlerCalls + 1
                    /\ connection' = a
                    /\ page' = "input"
               ELSE /\ status' = "Failed to connect"
                    /\ UNCHANGED <<handlerCalls, connection, page>>
    /\ NoLabels
    /\ UNCHANGED <<closeCalls, uiGrabbed, invokeQueue, session_id>>
    /\ UNCHANGED <<monitorVars, captureVars, workerVars, mouseVars, serverVars>>

\* ------------------------------------------------------ forwarder worker
\* The Option<SendStream> after a send_quic_bytes that returned `ok`: an
\* error sets it to None.
StreamAfterWrite_Retry(ok) == "open"
StreamAfterWrite(ok) == IF ok THEN "open" ELSE "failed"

\* finish_stream(stream.take())
finish_stream_Leak(stream) == stream
finish_stream(stream) == IF stream = "open" THEN "finished" ELSE stream

\* run_quic_worker: open_uni for the mouse stream; an error ends the worker,
\* which drops the receiver and whatever was queued on it.
WorkerOpenMouse(t, ok) ==
    /\ worker[t] = "open_mouse"
    /\ IF ok
       THEN /\ mouse_stream' = [mouse_stream EXCEPT ![t] = "open"]
            /\ worker' = [worker EXCEPT ![t] = "open_keyboard"]
            /\ UNCHANGED chan
       ELSE /\ worker' = [worker EXCEPT ![t] = "exited"]
            /\ chan' = [chan EXCEPT ![t] = <<>>]
            /\ UNCHANGED mouse_stream
    /\ NoLabels
    /\ UNCHANGED keyboard_stream
    /\ UNCHANGED <<uiVars, connectVars, monitorVars, captureVars, mouseVars, serverVars>>

\* run_quic_worker: open_uni for the keyboard stream; an error ends the
\* worker and drops the mouse stream that was opened.
WorkerOpenKeyboard(t, ok) ==
    /\ worker[t] = "open_keyboard"
    /\ IF ok
       THEN /\ keyboard_stream' = [keyboard_stream EXCEPT ![t] = "open"]
            /\ worker' = [worker EXCEPT ![t] = "recv"]
            /\ UNCHANGED <<chan, mouse_stream>>
       ELSE /\ worker' = [worker EXCEPT ![t] = "exited"]
            /\ chan' = [chan EXCEPT ![t] = <<>>]
            /\ mouse_stream' = [mouse_stream EXCEPT ![t] = "dropped"]
            /\ UNCHANGED keyboard_stream
    /\ NoLabels
    /\ UNCHANGED <<uiVars, connectVars, monitorVars, captureVars, mouseVars, serverVars>>

\* run_quic_worker's loop body for one received command.  A Mouse or
\* Keyboard command is written to its stream if the stream is still held,
\* and a failed write gives the stream up; Shutdown finishes both streams
\* and leaves the loop, after which the worker ends and the receiver is
\* dropped.
WorkerLoop(t, ok) ==
    /\ worker[t] = "recv"
    /\ chan[t] # <<>>
    /\ lastEvent' = NoEvent
    /\ LET command == Head(chan[t])
       IN  CASE command.cmd = "Mouse" ->
                  /\ chan' = [chan EXCEPT ![t] = Tail(@)]
                  /\ IF mouse_stream[t] = "open"
                     THEN /\ mouse_stream' = [mouse_stream EXCEPT ![t] = StreamAfterWrite(ok)]
                          /\ lastWrite' = Written(t, "Mouse", ok)
                     ELSE /\ ok
                          /\ lastWrite' = NoWrite
                          /\ UNCHANGED mouse_stream
                  /\ UNCHANGED <<worker, keyboard_stream>>
             [] command.cmd = "Keyboard" ->
                  /\ chan' = [chan EXCEPT ![t] = Tail(@)]
                  /\ IF keyboard_stream[t] = "open"
                     THEN /\ keyboard_stream' = [keyboard_stream EXCEPT ![t] = StreamAfterWrite(ok)]
                          /\ lastWrite' = Written(t, "Keyboard", ok)
                     ELSE /\ ok
                          /\ lastWrite' = NoWrite
                          /\ UNCHANGED keyboard_stream
                  /\ UNCHANGED <<worker, mouse_stream>>
             [] command.cmd = "Shutdown" ->
                  /\ ok
                  /\ mouse_stream' = [mouse_stream EXCEPT ![t] = finish_stream(@)]
                  /\ keyboard_stream' = [keyboard_stream EXCEPT ![t] = finish_stream(@)]
                  /\ worker' = [worker EXCEPT ![t] = "exited"]
                  /\ chan' = [chan EXCEPT ![t] = <<>>]
                  /\ lastWrite' = NoWrite
    /\ UNCHANGED <<uiVars, connectVars, monitorVars, captureVars, mouseVars>>

\* The frame a loop step with outcome `ok` puts on a stream, as the set of
\* its <<class, bytes>>: a Mouse or Keyboard command whose stream is still
\* held and whose write succeeds.
FramesWritten(t, ok) ==
    LET command == Head(chan[t])
    IN  IF /\ ok
           /\ command.cmd \in {"Mouse", "Keyboard"}
           /\ (IF command.cmd = "Mouse" THEN mouse_stream[t] ELSE keyboard_stream[t]) = "open"
        THEN {<<command.cmd, command.buf>>}
        ELSE {}

\* The streams after the frames `frames` were written on thread t's.
AfterWrites(streams, t, frames) ==
    [u \in Threads |-> [class \in {"Mouse", "Keyboard"} |->
        IF u = t /\ \E f \in frames : f[1] = class
        THEN Append(streams[u][class], (CHOOSE f \in frames : f[1] = class)[2])
        ELSE streams[u][class]]]

\* The loop step with the network out of sight.
WorkerRecv(t, ok) == WorkerLoop(t, ok) /\ UNCHANGED serverVars

\* The loop step with the stream the write goes to: a successful write puts
\* the command's bytes on the stream as one frame.
WorkerSend(t, ok) ==
    /\ WorkerLoop(t, ok)
    /\ wire' = AfterWrites(wire, t, FramesWritten(t, ok))
    /\ written' = AfterWrites(written, t, FramesWritten(t, ok))
    /\ UNCHANGED <<replayVars, admissionVars, simulatorVars, biVars>>

\* rx.recv() returns None: the channel is empty and the callback's sender
\* has been dropped.  The loop ends and both streams are finished.
WorkerChannelClosed(t) ==
    /\ worker[t] = "recv"
    /\ chan[t] = <<>>
    /\ ~quic_sender[t]
    /\ thread[t] \in {"returned", "done"}
    /\ mouse_stream' = [mouse_stream EXCEPT ![t] = finish_stream(@)]
    /\ keyboard_stream' = [keyboard_stream EXCEPT ![t] = finish_stream(@)]
    /\ worker' = [worker EXCEPT ![t] = "exited"]
    /\ NoLabels
    /\ UNCHANGED chan
    /\ UNCHANGED <<uiVars, connectVars, monitorVars, captureVars, mouseVars, serverVars>>

\* ------------------------------------------------------- server: replay
\* rmp_serde::from_slice::<MouseMove>: a struct reads from an array of its
\* two fields, or from a map that has both; anything else is an error.
DecodeMouseMove_Swapped(bytes) ==
    IF bytes[1] = "array" /\ Len(bytes) = 3
    THEN [ok |-> TRUE, dx |-> bytes[3], dy |-> bytes[2]]
    ELSE [ok |-> FALSE, dx |-> 0, dy |-> 0]
DecodeMouseMove(bytes) ==
    IF bytes[1] = "array" /\ Len(bytes) = 3
    THEN [ok |-> TRUE, dx |-> bytes[2], dy |-> bytes[3]]
    ELSE [ok |-> FALSE, dx |-> 0, dy |-> 0]

\* rdev::EventType's variants.
EventTypes ==
    {"KeyPress", "KeyRelease", "ButtonPress", "ButtonRelease", "MouseMove", "Wheel"}

\* rmp_serde::from_slice::<EventType>: an enum reads from a one-entry map
\* from the name of one of its variants to the variant's content.
DecodeEvent(bytes) ==
    IF bytes[1] = "map" /\ Len(bytes) = 3 /\ bytes[2] \in EventTypes
    THEN [ok |-> TRUE, kind |-> bytes[2], arg |-> bytes[3]]
    ELSE [ok |-> FALSE, kind |-> "none", arg |-> "none"]

\* Where handle_uni_stream sends a chunk: the mouse-delta shape is tried
\* first, then the Event shape, whose button and wheel variants go to
\* simulators[1] and every other variant to simulators[0]; a chunk of
\* neither shape is logged and dropped.
ClassifyQueue_KeysOnly(kind) == "keyboard"
ClassifyQueue(kind) ==
    IF kind \in {"ButtonPress", "ButtonRelease", "Wheel"} THEN "button" ELSE "keyboard"

Classify_UnknownAsKey(bytes) ==
    IF DecodeMouseMove(bytes).ok THEN "move"
    ELSE IF DecodeEvent(bytes).ok THEN ClassifyQueue(DecodeEvent(bytes).kind)
    ELSE "keyboard"
Classify(bytes) ==
    IF DecodeMouseMove(bytes).ok THEN "move"
    ELSE IF DecodeEvent(bytes).ok THEN ClassifyQueue(DecodeEvent(bytes).kind)
    ELSE "unknown"

\* An entry of a simulator's queue: the event, and as observer the stream
\* whose handler enqueued it and whether it was decoded from a frame or is
\* one of the handler's closing releases.
Entry(kind, arg, t, class, decoded) ==
    [kind |-> kind, arg |-> arg, from |-> <<t, class>>, decoded |-> decoded]

\* The three releases handle_uni_stream enqueues on simulators[0] after
\* its read loop.
FailsafeReleases(t, class) ==
    << Entry("KeyRelease", "ControlLeft", t, class, FALSE),
       Entry("KeyRelease", "Alt", t, class, FALSE),
       Entry("KeyRelease", "Num0", t, class, FALSE) >>

\* The stream's sending side is gone: finished, or dropped (which finishes
\* it implicitly) after a failed write or a failed open of the other stream.
SendSideClosed(t, class) ==
    (IF class = "Mouse" THEN mouse_stream[t] ELSE keyboard_stream[t])
        \in {"finished", "failed", "dropped"}

\* An f64 of the program is counted in halves: 21 stands for 10.5 and -6
\* for -3.0.  `v as i32` drops the fraction, rounding toward zero.
\* (The cast also saturates at the ends of i32, which no delta of the model
\* comes near.)
as_i32(v) == IF v >= 0 THEN 2 * (v \div 2) ELSE -(2 * ((-v) \div 2))

\* The cursor after one more relative move by (dx, dy).
Moved(dx, dy) == [count |-> moves.count + 1, last |-> <<dx, dy>>]

MoveOutcomes == {"device", "queued", "dropped"}

\* listen_uni_streams: accept_uni returns a stream once the peer has sent
\* something on it (data or its end), and handle_uni_stream is spawned on
\* a thread of its own.
AcceptUni(t, class) ==
    /\ reader[t][class] = "none"
    /\ wire[t][class] # <<>> \/ SendSideClosed(t, class)
    /\ reader' = [reader EXCEPT ![t][class] = "reading"]
    /\ UNCHANGED <<keyboardQueue, buttonQueue, injected, moves>>
    /\ NoLabels
    /\ UNCHANGED <<uiVars, connectVars, monitorVars, captureVars, workerVars, mouseVars,
                   streamVars, admissionVars, simulatorVars, biVars>>

\* What is left to read of a stream after read_chunk returned its first
\* frame.
AfterRead_Again(stream) == stream
AfterRead(stream) == Tail(stream)

\* handle_uni_stream, read_chunk returns Ok(Some(chunk)): the chunk is one
\* frame.  What do_mouse_move makes of a mouse delta depends on the build
\* and the device: "device" (the virtual mouse takes it, as two i32), "queued" (without
\* a virtual mouse the move is enqueued on simulators[1]) or "dropped" (the
\* device is missing or fails, or the cursor position cannot be read).
ReadChunk(t, class, outcome) ==
    /\ reader[t][class] = "reading"
    /\ wire[t][class] # <<>>
    /\ wire' = [wire EXCEPT ![t][class] = AfterRead(@)]
    /\ LET bytes == Head(wire[t][class])
           target == Classify(bytes)
           event == DecodeEvent(bytes)
       IN  CASE target = "move" ->
                  /\ moves' = IF outcome = "device"
                              THEN Moved(as_i32(DecodeMouseMove(bytes).dx),
                                         as_i32(DecodeMouseMove(bytes).dy))
                              ELSE moves
                  /\ buttonQueue' = IF outcome = "queued"
                                    THEN Append(buttonQueue,
                                             Entry("MouseMove",
                                                   <<DecodeMouseMove(bytes).dx,
                                                     DecodeMouseMove(bytes).dy>>,
                                                   t, class, TRUE))
                                    ELSE buttonQueue
                  /\ UNCHANGED keyboardQueue
             [] target = "button" ->
                  /\ outcome = "device"
                  /\ buttonQueue' = Append(buttonQueue,
                                           Entry(event.kind, event.arg, t, class, TRUE))
                  /\ UNCHANGED <<keyboardQueue, moves>>
             [] target = "keyboard" ->
                  /\ outcome = "device"
                  /\ keyboardQueue' = Append(keyboardQueue,
                                             Entry(event.kind, event.arg, t, class, TRUE))
                  /\ UNCHANGED <<buttonQueue, moves>>
             [] OTHER ->
                  /\ outcome = "device"
                  /\ UNCHANGED <<keyboardQueue, buttonQueue, moves>>
    /\ NoLabels
    /\ UNCHANGED <<written, reader, injected>>
    /\ UNCHANGED <<uiVars, connectVars, monitorVars, captureVars, workerVars, mouseVars,
                   admissionVars, simulatorVars, biVars>>

\* Whether the read loop's end for reason `how` ("end" for Ok(None),
\* "error" for Err) is followed by the closing releases: both arms break
\* to the statements after the loop.
ReleasesAfter_ErrorOnly(how) == how = "error"
ReleasesAfter(how) == how \in {"end", "error"}

\* handle_uni_stream, read_chunk returns Ok(None) (everything written was
\* read and the sending side is closed) or Err (at any time): the loop is
\* left and the closing releases are enqueued on simulators[0].
ReadStops(t, class, how) ==
    /\ reader[t][class] = "reading"
    /\ how \in {"end", "error"}
    /\ how = "end" => (wire[t][class] = <<>> /\ SendSideClosed(t, class))
    /\ reader' = [reader EXCEPT ![t][class] = IF how = "end" THEN "ended" ELSE "failed"]
    /\ keyboardQueue' = IF ReleasesAfter(how)
                        THEN keyboardQueue \o FailsafeReleases(t, class)
                        ELSE keyboardQueue
    /\ UNCHANGED <<buttonQueue, injected, moves>>
    /\ NoLabels
    /\ UNCHANGED <<uiVars, connectVars, monitorVars, captureVars, workerVars, mouseVars,
                   streamVars, admissionVars, simulatorVars, biVars>>

\* The channel of one simulator.
QueueOf(q) == IF q = "keyboard" THEN keyboardQueue ELSE buttonQueue

\* `for event in receiver { simulate(&event) }` is one thread: it takes
\* the next event only when it is not inside simulate().
WorkerIdle_Always(call) == TRUE
WorkerIdle(call) == call = <<>>

\* The simulator thread of queue q receives the next event of its channel
\* and calls simulate() with it.
BeginSimulate(q) ==
    /\ simulators[q].running
    /\ WorkerIdle(simulators[q].call)
    /\ QueueOf(q) # <<>>
    /\ simulators' = [simulators EXCEPT ![q].call = Append(@, Head(QueueOf(q)))]
    /\ IF q = "keyboard"
       THEN keyboardQueue' = Tail(keyboardQueue) /\ UNCHANGED buttonQueue
       ELSE buttonQueue' = Tail(buttonQueue) /\ UNCHANGED keyboardQueue
    /\ UNCHANGED <<reader, injected, moves, attempts>>
    /\ NoLabels
    /\ UNCHANGED <<uiVars, connectVars, monitorVars, captureVars, workerVars, mouseVars,
                   streamVars, admissionVars, biVars>>

\* Whether the simulator's loop goes on after simulate() returned: an Err
\* is printed and nothing else.
LoopAfter_BreakOnError(ok) == ok
LoopAfter(ok) == TRUE

\* simulate() returns, with Ok or with Err, to the thread of queue q.
EndSimulate(q, ok) ==
    /\ simulators[q].call # <<>>
    /\ LET event == Head(simulators[q].call)
       IN  /\ simulators' = [simulators EXCEPT
                                ![q] = [call |-> Tail(@.call), running |-> LoopAfter(ok)]]
           /\ attempts' = Append(attempts, [queue |-> q, event |-> event, ok |-> ok])
           /\ injected' = IF q = "keyboard" /\ ok THEN Append(injected, event) ELSE injected
           /\ moves' = IF q = "button" /\ ok /\ event.kind = "MouseMove"
                       THEN Moved(event.arg[1], event.arg[2])
                       ELSE moves
    /\ UNCHANGED <<reader, keyboardQueue, buttonQueue>>
    /\ NoLabels
    /\ UNCHANGED <<uiVars, connectVars, monitorVars, captureVars, workerVars, mouseVars,
                   streamVars, admissionVars, biVars>>

\* What reaches read_chunk is whatever the connected peer wrote: the
\* server takes any client, so a chunk need not be one this repository's
\* client would send.  The peer writes one chunk on a stream it holds open.
PeerWrite(t, class, bytes) ==
    /\ (IF class = "Mouse" THEN mouse_stream[t] ELSE keyboard_stream[t]) = "open"
    /\ wire' = [wire EXCEPT ![t][class] = Append(@, bytes)]
    /\ written' = [written EXCEPT ![t][class] = Append(@, bytes)]
    /\ NoLabels
    /\ UNCHANGED <<replayVars, admissionVars, simulatorVars, biVars>>
    /\ UNCHANGED <<uiVars, connectVars, monitorVars, captureVars, workerVars, mouseVars>>

\* The event-simulator thread of simulators[0], seen from outside: the next
\* event of its channel is simulated, successfully, in one step.
SimulateKey ==
    /\ keyboardQueue # <<>>
    /\ keyboardQueue' = Tail(keyboardQueue)
    /\ injected' = Append(injected, Head(keyboardQueue))
    /\ UNCHANGED <<reader, buttonQueue, moves>>
    /\ NoLabels
    /\ UNCHANGED <<uiVars, connectVars, monitorVars, captureVars, workerVars, mouseVars,
                   streamVars, admissionVars, simulatorVars, biVars>>

\* The event-simulator thread of simulators[1].
SimulateButton ==
    /\ buttonQueue # <<>>
    /\ buttonQueue' = Tail(buttonQueue)
    /\ moves' = IF Head(buttonQueue).kind = "MouseMove"
                THEN Moved(Head(buttonQueue).arg[1], Head(buttonQueue).arg[2])
                ELSE moves
    /\ UNCHANGED <<reader, keyboardQueue, injected>>
    /\ NoLabels
    /\ UNCHANGED <<uiVars, connectVars, monitorVars, captureVars, workerVars, mouseVars,
                   streamVars, admissionVars, simulatorVars, biVars>>

\* ---------------------------------------------------- server: admission
\* The number of permits run_server creates its semaphore with.
max_connections == MaxPermits

\* Connections that reach the endpoint in one run: one more than there are
\* permits.
Conns == 1..(max_connections + 1)

\* The tasks handle_connection spawns and awaits, in the order it awaits
\* them.
Tasks == {"bi", "uni", "close"}
AwaitOf(task) ==
    CASE task = "bi" -> "await_bi" [] task = "uni" -> "await_uni" [] OTHER -> "await_close"
AfterAwait(awaiting) ==
    CASE awaiting = "await_bi" -> "await_uni"
      [] awaiting = "await_uni" -> "await_close"
      [] OTHER -> "done"

\* The connection's handle_connection task exists and has not dropped its
\* permit.
HoldsPermit(c) == stage[c] \in {"handshake", "await_bi", "await_uni", "await_close"}

\* A client connects: the endpoint queues the incoming connection.
Arrive(c) ==
    /\ stage[c] = "none"
    /\ stage' = [stage EXCEPT ![c] = "incoming"]
    /\ incomingQueue' = Append(incomingQueue, c)
    /\ UNCHANGED <<permits, held, tasks, closed, released, waited>>
    /\ UNCHANGED <<uiVars, connectVars, monitorVars, captureVars, workerVars, mouseVars,
                   labelVars, streamVars, replayVars, simulatorVars, biVars>>

\* run_server: endpoint.accept() returns the next incoming connection and
\* the loop goes on to acquire a permit for it.
Accept ==
    /\ held = 0
    /\ incomingQueue # <<>>
    /\ held' = Head(incomingQueue)
    /\ incomingQueue' = Tail(incomingQueue)
    /\ stage' = [stage EXCEPT ![Head(incomingQueue)] = "waiting"]
    /\ waited' = [waited EXCEPT ![Head(incomingQueue)] = (permits = 0)]
    /\ UNCHANGED <<permits, tasks, closed, released>>
    /\ UNCHANGED <<uiVars, connectVars, monitorVars, captureVars, workerVars, mouseVars,
                   labelVars, streamVars, replayVars, simulatorVars, biVars>>

\* acquire_owned() completes when a permit is available.
CanAcquire_Always(available) == TRUE
CanAcquire(available) == available > 0

\* run_server: the permit is acquired and handle_connection is spawned
\* with the incoming connection and the permit; the loop returns to accept.
Acquire ==
    /\ held # 0
    /\ CanAcquire(permits)
    /\ permits' = permits - 1
    /\ stage' = [stage EXCEPT ![held] = "handshake"]
    /\ held' = 0
    /\ UNCHANGED <<incomingQueue, tasks, closed, released, waited>>
    /\ UNCHANGED <<uiVars, connectVars, monitorVars, captureVars, workerVars, mouseVars,
                   labelVars, streamVars, replayVars, simulatorVars, biVars>>

\* The semaphore after drop(permit).
PermitsAfterDrop_Kept(available) == available
PermitsAfterDrop(available) == available + 1

\* handle_connection, incoming.await returns: Ok spawns the bi listener,
\* the uni listener and the close watcher and awaits the first; Err logs
\* and drops the permit.
Handshake(c, ok) ==
    /\ stage[c] = "handshake"
    /\ IF ok
       THEN /\ tasks' = [tasks EXCEPT ![c] = [task \in Tasks |-> "running"]]
            /\ stage' = [stage EXCEPT ![c] = "await_bi"]
            /\ UNCHANGED <<permits, released>>
       ELSE /\ stage' = [stage EXCEPT ![c] = "done"]
            /\ permits' = PermitsAfterDrop(permits)
            /\ released' = [released EXCEPT ![c] = @ + 1]
            /\ UNCHANGED tasks
    /\ UNCHANGED <<incomingQueue, held, closed, waited>>
    /\ UNCHANGED <<uiVars, connectVars, monitorVars, captureVars, workerVars, mouseVars,
                   labelVars, streamVars, replayVars, simulatorVars, biVars>>

\* The connection closes: by the peer, locally, or by a transport error.
ConnectionCloses(c) ==
    /\ stage[c] \in {"await_bi", "await_uni", "await_close"}
    /\ ~closed[c]
    /\ closed' = [closed EXCEPT ![c] = TRUE]
    /\ UNCHANGED <<permits, incomingQueue, held, stage, tasks, released, waited>>
    /\ UNCHANGED <<uiVars, connectVars, monitorVars, captureVars, workerVars, mouseVars,
                   labelVars, streamVars, replayVars, simulatorVars, biVars>>

\* Whether a listener's accept or the watcher's closed() can return and
\* end the task: every ConnectionError arm breaks out of the loop, so the
\* task ends once the connection is closed; a panic ends it at any time.
TaskReturns_PanicOnly(isClosed, panicked) == panicked
TaskReturns(isClosed, panicked) == panicked \/ isClosed

\* One of the three tasks ends: normally once the connection is closed
\* (accept_bi, accept_uni and closed() then return), or by a panic.
TaskEnds(c, task, panicked) ==
    /\ tasks[c][task] = "running"
    /\ TaskReturns(closed[c], panicked)
    /\ tasks' = [tasks EXCEPT ![c][task] = IF panicked THEN "panicked" ELSE "done"]
    /\ UNCHANGED <<permits, incomingQueue, held, stage, closed, released, waited>>
    /\ UNCHANGED <<uiVars, connectVars, monitorVars, captureVars, workerVars, mouseVars,
                   labelVars, streamVars, replayVars, simulatorVars, biVars>>

\* A JoinHandle's await returns once its task has ended, with Ok or with a
\* JoinError.
Joinable_NoWait(state) == TRUE
Joinable(state) == state \in {"done", "panicked"}

\* handle_connection passes the await of `task` (a JoinError is only
\* logged); after the last one it drops the permit.
Join(c, task) ==
    /\ stage[c] = AwaitOf(task)
    /\ Joinable(tasks[c][task])
    /\ stage' = [stage EXCEPT ![c] = AfterAwait(stage[c])]
    /\ IF AfterAwait(stage[c]) = "done"
       THEN /\ permits' = PermitsAfterDrop(permits)
            /\ released' = [released EXCEPT ![c] = @ + 1]
       ELSE UNCHANGED <<permits, released>>
    /\ UNCHANGED <<incomingQueue, held, tasks, closed, waited>>
    /\ UNCHANGED <<uiVars, connectVars, monitorVars, captureVars, workerVars, mouseVars,
                   labelVars, streamVars, replayVars, simulatorVars, biVars>>

\* ---------------------------------------------- server: handle_bi_stream
\* listen_bi_streams: accept_bi returns a stream the peer opened and
\* handle_bi_stream is spawned for it on a thread of its own.
AcceptBi(c) ==
    /\ tasks[c]["bi"] = "running"
    /\ ~closed[c]
    /\ biStream[c].state = "none"
    /\ biStream' = [biStream EXCEPT ![c].state = "reading"]
    /\ NoLabels
    /\ UNCHANGED <<streamVars, replayVars, admissionVars, simulatorVars>>
    /\ UNCHANGED <<uiVars, connectVars, monitorVars, captureVars, workerVars, mouseVars>>

\* Where handle_bi_stream goes when read_chunk returns Err: it returns,
\* past the acknowledgement.
BiAfterError_Break == "ack"
BiAfterError == "failed"

\* handle_bi_stream's read loop: read_chunk returns a chunk ("chunk"), the
\* peer's end of stream ("end", which leaves the loop for the
\* acknowledgement) or an error ("error").
BiRead(c, outcome) ==
    /\ biStream[c].state = "reading"
    /\ outcome \in {"chunk", "end", "error"}
    /\ outcome = "chunk" => biStream[c].read < MaxChunks
    /\ biStream' = [biStream EXCEPT ![c] =
           CASE outcome = "chunk" -> [@ EXCEPT !.read = @ + 1]
             [] outcome = "end"   -> [@ EXCEPT !.state = "ack"]
             [] OTHER             -> [@ EXCEPT !.state = BiAfterError, !.failed = TRUE]]
    /\ NoLabels
    /\ UNCHANGED <<streamVars, replayVars, admissionVars, simulatorVars>>
    /\ UNCHANGED <<uiVars, connectVars, monitorVars, captureVars, workerVars, mouseVars>>

\* send_bi_data(&mut send, b"ack"): write_all, then finish; either may
\* fail ("write_failed", "finish_failed"), which is logged, and the
\* handler ends.
SendAck(c, outcome) ==
    /\ biStream[c].state = "ack"
    /\ outcome \in {"sent", "write_failed", "finish_failed"}
    /\ biStream' = [biStream EXCEPT ![c] =
           [state |-> "done",
            read |-> @.read,
            failed |-> @.failed,
            acks |-> IF outcome = "write_failed" THEN @.acks ELSE @.acks + 1,
            finished |-> outcome = "sent"]]
    /\ NoLabels
    /\ UNCHANGED <<streamVars, replayVars, admissionVars, simulatorVars>>
    /\ UNCHANGED <<uiVars, connectVars, monitorVars, captureVars, workerVars, mouseVars>>

\* --------------------------------------------------------- initial states
\* ConnectView::new and AppController::new: generation 0, nothing shown,
\* no connection, the connect page visible.
InitUI ==
    /\ connection = 0
    /\ closeCalls = [a \in Attempts |-> 0]
    /\ uiGrabbed = FALSE
    /\ invokeQueue = 0
    /\ page = "connect"
    /\ session_id = 0
    /\ attempt = [a \in Attempts |-> [state |-> "unused", marker |-> 0, outcome |-> "none"]]
    /\ status = "hidden"
    /\ spinner = FALSE
    /\ sensitive = TRUE
    /\ handlerCalls = 0

\* The UI after connect attempt 1 succeeded: handle_connected stored
\* connection 1 in the input view and showed the input page (the cursor's
\* state is the specification's to say).
InitUIConnected ==
    /\ connection = 1
    /\ closeCalls = [a \in Attempts |-> 0]
    /\ invokeQueue = 0
    /\ page = "input"
    /\ session_id = 0
    /\ attempt = [a \in Attempts |->
                    IF a = 1 THEN [state |-> "done", marker |-> 0, outcome |-> "ok"]
                             ELSE [state |-> "unused", marker |-> 0, outcome |-> "none"]]
    /\ status = "hidden"
    /\ spinner = FALSE
    /\ sensitive = TRUE
    /\ handlerCalls = 1

\* The statics of key_monitor.rs and no capture thread.
InitMonitor ==
    /\ MONITOR_RUNNING = FALSE
    /\ caller = [c \in Callers |-> "idle"]
    /\ thread = [t \in Threads |-> "unused"]
    /\ result = [t \in Threads |-> "none"]
    /\ modifiers = [t \in Threads |-> DefaultModifiers]
    /\ quic_sender = [t \in Threads |-> FALSE]
    /\ heldKeys = [t \in Threads |-> {}]
    /\ chan = [t \in Threads |-> <<>>]
    /\ worker = [t \in Threads |-> "none"]
    /\ mouse_stream = [t \in Threads |-> "none"]
    /\ keyboard_stream = [t \in Threads |-> "none"]

\* Capture thread 1 right after run_key_monitor installed its hook (the
\* state RunKeyMonitor(1, TRUE) leaves): the flag set, the forwarder
\* spawned and about to open its streams.
InitMonitorGrabbing ==
    /\ MONITOR_RUNNING = TRUE
    /\ caller = [c \in Callers |-> "idle"]
    /\ thread = [t \in Threads |-> IF t = 1 THEN "grabbing" ELSE "unused"]
    /\ result = [t \in Threads |-> "none"]
    /\ modifiers = [t \in Threads |-> DefaultModifiers]
    /\ quic_sender = [t \in Threads |-> t = 1]
    /\ heldKeys = [t \in Threads |-> {}]
    /\ chan = [t \in Threads |-> <<>>]
    /\ worker = [t \in Threads |-> IF t = 1 THEN "open_mouse" ELSE "none"]
    /\ mouse_stream = [t \in Threads |-> "none"]
    /\ keyboard_stream = [t \in Threads |-> "none"]

InitMouse ==
    /\ IGNORE_MOUSE = FALSE
    /\ osQueue = <<>>
    /\ realSeen = 0
    /\ deltasSent = 0
    /\ loopSeen = [t \in Threads |-> 0]

InitLabels == lastEvent = NoEvent /\ lastWrite = NoWrite

Classes == {"Mouse", "Keyboard"}

\* simulators[0] and simulators[1].
Queues == {"keyboard", "button"}

\* No stream carries anything yet; the server runs with its two simulators
\* idle (EventSimulator::new, twice) and has accepted no stream.
InitServer ==
    /\ wire = [t \in Threads |-> [class \in Classes |-> <<>>]]
    /\ written = [t \in Threads |-> [class \in Classes |-> <<>>]]
    /\ reader = [t \in Threads |-> [class \in Classes |-> "none"]]
    /\ keyboardQueue = <<>>
    /\ buttonQueue = <<>>
    /\ injected = <<>>
    /\ moves = [count |-> 0, last |-> <<0, 0>>]
    /\ simulators = [q \in Queues |-> [call |-> <<>>, running |-> TRUE]]
    /\ attempts = <<>>
    /\ permits = max_connections
    /\ incomingQueue = <<>>
    /\ held = 0
    /\ stage = [c \in Conns |-> "none"]
    /\ tasks = [c \in Conns |-> [task \in Tasks |-> "none"]]
    /\ closed = [c \in Conns |-> FALSE]
    /\ released = [c \in Conns |-> 0]
    /\ waited = [c \in Conns |-> FALSE]
    /\ biStream = [c \in Conns |->
                      [state |-> "none", read |-> 0, failed |-> FALSE, acks |-> 0, finished |-> FALSE]]

\* ---------------------------------------------------------- specifications
\* The capture loop's life from a connected client: concurrent starts, hook
\* failures, the chord typed key by key, the hotkey, panics, the thread's
\* end, forwarders whose streams do not fail, and the UI callback.
Init ==
    /\ InitUIConnected /\ uiGrabbed = FALSE
    /\ InitMonitor /\ InitMouse /\ InitLabels /\ InitServer

Next ==
    \/ \E c \in Callers : StartCapture(c)
    \/ \E c \in Callers : SpawnThread(c)
    \/ \E t \in Threads, hooked \in BOOLEAN : RunKeyMonitor(t, hooked)
    \/ \E t \in Threads, key \in ChordKeys : KeyPress(t, key)
    \/ \E t \in Threads : CallbackPanic(t)
    \/ \E t \in Threads : ThreadFinish(t)
    \/ \E t \in Threads : WorkerOpenMouse(t, TRUE)
    \/ \E t \in Threads : WorkerOpenKeyboard(t, TRUE)
    \/ \E t \in Threads : WorkerRecv(t, TRUE)
    \/ \E t \in Threads : WorkerChannelClosed(t)
    \/ input_ungrabbed

Spec == Init /\ [][Next]_vars

\* One capture loop from the moment its hook is installed: every key, the
\* forwarder, and the UI's reset.
InitHotkey ==
    /\ InitUIConnected /\ uiGrabbed = TRUE
    /\ InitMonitorGrabbing /\ InitMouse /\ InitLabels /\ InitServer

NextHotkey ==
    \/ \E t \in Threads, key \in Keys : KeyPress(t, key)
    \/ \E t \in Threads, key \in Keys : KeyRelease(t, key)
    \/ \E t \in Threads : ThreadFinish(t)
    \/ \E t \in Threads, ok \in BOOLEAN : WorkerOpenMouse(t, ok)
    \/ \E t \in Threads, ok \in BOOLEAN : WorkerOpenKeyboard(t, ok)
    \/ \E t \in Threads, ok \in BOOLEAN : WorkerRecv(t, ok)
    \/ input_ungrabbed
    \/ reset

SpecHotkey == InitHotkey /\ [][NextHotkey]_vars

\* One capture loop forwarding both classes: mouse samples and their
\* re-centering echoes, presses and releases of an ordinary key, and the
\* forwarder with writes that may fail.
NextForward ==
    \/ UserMovesMouse
    \/ \E t \in Threads, echo \in BOOLEAN : MouseMove(t, echo)
    \/ \E t \in Threads : KeyPress(t, "KeyA")
    \/ \E t \in Threads : KeyRelease(t, "KeyA")
    \/ \E t \in Threads, ok \in BOOLEAN : WorkerOpenMouse(t, ok)
    \/ \E t \in Threads, ok \in BOOLEAN : WorkerOpenKeyboard(t, ok)
    \/ \E t \in Threads, ok \in BOOLEAN : WorkerRecv(t, ok)

SpecForward == InitHotkey /\ [][NextForward]_vars

\* rdev::Button values.
Buttons == {"Left", "Right"}
\* Wheel deltas: none, one notch either way.
WheelDeltas == {-1, 0, 1}

\* Buttons and the wheel while the chord is typed: presses and releases
\* of the chord's keys, button and wheel events, the capture thread's end
\* and the forwarder.
NextButtons ==
    \/ \E t \in Threads, key \in ChordKeys : KeyPress(t, key)
    \/ \E t \in Threads, key \in ModifierKeys : KeyRelease(t, key)
    \/ \E t \in Threads, kind \in {"ButtonPress", "ButtonRelease"}, button \in Buttons :
           Button(t, kind, button)
    \/ \E t \in Threads, delta_x \in WheelDeltas, delta_y \in WheelDeltas :
           Wheel(t, delta_x, delta_y)
    \/ \E t \in Threads : ThreadFinish(t)
    \/ \E t \in Threads, ok \in BOOLEAN : WorkerOpenMouse(t, ok)
    \/ \E t \in Threads, ok \in BOOLEAN : WorkerOpenKeyboard(t, ok)
    \/ \E t \in Threads : WorkerRecv(t, TRUE)

SpecButtons == InitHotkey /\ [][NextButtons]_vars

\* The connect view from program start: clicks on the enter button,
\* connect results arriving, resets and shutdowns.
InitConnect ==
    /\ InitUI /\ InitMonitor /\ InitMouse /\ InitLabels /\ InitServer

NextConnect ==
    \/ \E ip \in EntryTexts, port \in EntryTexts : ClickEnter(ip, port)
    \/ \E a \in Attempts, outcome \in Outcomes : ConnectResult(a, outcome)
    \/ shutdown
    \/ reset

SpecConnect == InitConnect /\ [][NextConnect]_vars

\* Connecting and starting capture from program start: clicks on the enter
\* button, connect results, resets and shutdowns, clicks on the input
\* view that request capture, and the capture thread's spawn.
NextConnectCapture ==
    \/ \E ip \in EntryTexts, port \in EntryTexts : ClickEnter(ip, port)
    \/ \E a \in Attempts, outcome \in Outcomes : ConnectResult(a, outcome)
    \/ shutdown
    \/ reset
    \/ \E c \in Callers : StartCapture(c)
    \/ \E c \in Callers : SpawnThread(c)

SpecConnectCapture == InitConnect /\ [][NextConnectCapture]_vars

\* One capture loop and a forwarder that may be behind: the chord's keys
\* and mouse samples handed over while a command still waits, panics, the
\* thread's end, and
\* the forwarder with opens and writes that may fail and a channel that
\* may close under it.
NextWorker ==
    \/ \E t \in Threads, key \in ChordKeys : KeyPressBehind(t, key)
    \/ \E t \in Threads, key \in ChordKeys : KeyReleaseBehind(t, key)
    \/ UserMovesMouse
    \/ \E t \in Threads, echo \in BOOLEAN : MouseMoveBehind(t, echo)
    \/ \E t \in Threads : CallbackPanic(t)
    \/ \E t \in Threads : ThreadFinish(t)
    \/ \E t \in Threads, ok \in BOOLEAN : WorkerOpenMouse(t, ok)
    \/ \E t \in Threads, ok \in BOOLEAN : WorkerOpenKeyboard(t, ok)
    \/ \E t \in Threads, ok \in BOOLEAN : WorkerRecv(t, ok)
    \/ \E t \in Threads : WorkerChannelClosed(t)

SpecWorker == InitHotkey /\ [][NextWorker]_vars

\* Whether thread t's callback has forwarded the frame `buf`: it waits in
\* the channel or was written to a stream.
Forwarded(t, buf) ==
    \/ \E i \in 1..Len(chan[t]) : chan[t][i].cmd # "Shutdown" /\ chan[t][i].buf = buf
    \/ \E class \in Classes : \E i \in 1..Len(written[t][class]) : written[t][class][i] = buf

\* Mouse-class frames thread t's callback has forwarded.
MouseFramesOf(t) ==
    Cardinality({i \in 1..Len(chan[t]) : chan[t][i].cmd = "Mouse"}) + Len(written[t]["Mouse"])

\* One session end to end: capture is on, the user presses the keys of
\* the chord (each once, in any order) and mouse buttons, the worker writes
\* the frames, and the server accepts the streams, replays what it reads
\* and ends each stream.
NextReplay ==
    \/ \E t \in Threads, key \in ChordKeys :
           ~Forwarded(t, EncodeEvent("KeyPress", key)) /\ KeyPress(t, key)
    \/ \E t \in Threads :
           MouseFramesOf(t) < MaxFrames /\ Button(t, "ButtonPress", "Left")
    \/ \E t \in Threads : ThreadFinish(t)
    \/ \E t \in Threads : WorkerOpenMouse(t, TRUE)
    \/ \E t \in Threads : WorkerOpenKeyboard(t, TRUE)
    \/ \E t \in Threads, ok \in BOOLEAN : WorkerSend(t, ok)
    \/ \E t \in Threads, class \in Classes : AcceptUni(t, class)
    \/ \E t \in Threads, class \in Classes, outcome \in MoveOutcomes :
           ReadChunk(t, class, outcome)
    \/ \E t \in Threads, class \in Classes, how \in {"end", "error"} : ReadStops(t, class, how)
    \/ SimulateKey
    \/ SimulateButton

SpecReplay == InitHotkey /\ [][NextReplay]_vars

\* The classification view: every kind of event the callback forwards is
\* written and read back by the server while capture stays on.
NextClassify ==
    \/ \E t \in Threads :
           ~Forwarded(t, EncodeEvent("KeyPress", "KeyA")) /\ KeyPress(t, "KeyA")
    \/ \E t \in Threads :
           ~Forwarded(t, EncodeEvent("KeyRelease", "KeyA")) /\ KeyRelease(t, "KeyA")
    \/ \E t \in Threads, kind \in {"ButtonPress", "ButtonRelease"} :
           MouseFramesOf(t) < MaxFrames /\ Button(t, kind, "Left")
    \/ \E t \in Threads, delta_y \in {0, 1} :
           MouseFramesOf(t) < MaxFrames /\ Wheel(t, 0, delta_y)
    \/ UserMovesMouse
    \/ \E t \in Threads, echo \in BOOLEAN :
           MouseFramesOf(t) < MaxFrames /\ MouseMove(t, echo)
    \/ \E t \in Threads : WorkerOpenMouse(t, TRUE)
    \/ \E t \in Threads : WorkerOpenKeyboard(t, TRUE)
    \/ \E t \in Threads : WorkerSend(t, TRUE)
    \/ \E t \in Threads, class \in Classes : AcceptUni(t, class)
    \/ \E t \in Threads, class \in Classes, outcome \in MoveOutcomes :
           ReadChunk(t, class, outcome)
    \/ SimulateKey
    \/ SimulateButton

SpecClassify == InitHotkey /\ [][NextClassify]_vars

\* The hotkey and what follows it: the chord is typed, the callback sends
\* Shutdown and asks the loop to stop, further events reach the callback
\* before the loop has ended, and the forwarder takes its commands.
NextShutdown ==
    \/ \E t \in Threads, key \in ChordKeys : KeyPress(t, key)
    \/ \E t \in Threads, key \in ChordKeys : KeyRelease(t, key)
    \/ \E t \in Threads, key \in ChordKeys : KeyPressBehind(t, key)
    \/ \E t \in Threads, key \in ChordKeys : LateEvent(t, "KeyPress", key)
    \/ \E t \in Threads, key \in ChordKeys : LateEvent(t, "KeyRelease", key)
    \/ \E t \in Threads : LateEvent(t, "ButtonPress", "Left")
    \/ \E t \in Threads : ThreadFinish(t)
    \/ \E t \in Threads : WorkerOpenMouse(t, TRUE)
    \/ \E t \in Threads : WorkerOpenKeyboard(t, TRUE)
    \/ \E t \in Threads, ok \in BOOLEAN : WorkerRecv(t, ok)

SpecShutdown == InitHotkey /\ [][NextShutdown]_vars

\* Capture stopped by the hotkey and started again while the mouse is in
\* use: samples and their re-centering echoes, the chord, the thread's end
\* and the next click on the input page once the loop has ended.
NextRestart ==
    \/ UserMovesMouse
    \/ \E t \in Threads, echo \in BOOLEAN : MouseMove(t, echo)
    \/ \E t \in Threads, key \in ChordKeys : KeyPress(t, key)
    \/ \E t \in Threads : ThreadFinish(t)
    \/ \E c \in Callers : MONITOR_RUNNING = FALSE /\ StartCapture(c)
    \/ \E c \in Callers : SpawnThread(c)
    \/ \E t \in Threads : RunKeyMonitor(t, TRUE)
    \/ \E t \in Threads : WorkerOpenMouse(t, TRUE)
    \/ \E t \in Threads : WorkerOpenKeyboard(t, TRUE)
    \/ \E t \in Threads : WorkerRecv(t, TRUE)

SpecRestart == InitHotkey /\ [][NextRestart]_vars

\* Sessions with a bidirectional stream, one session after the other: the
\* connection is admitted, the peer opens the stream, sends chunks and ends
\* it or the read fails, the handler acknowledges, and the connection
\* closes at any time; a handler may still run when the next session
\* has begun.
NextBi ==
    \/ \E c \in Conns : (\A d \in Conns : d < c => stage[d] = "done") /\ Arrive(c)
    \/ Accept
    \/ Acquire
    \/ \E c \in Conns : Handshake(c, TRUE)
    \/ \E c \in Conns : ConnectionCloses(c)
    \/ \E c \in Conns, task \in Tasks : TaskEnds(c, task, FALSE)
    \/ \E c \in Conns, task \in Tasks : Join(c, task)
    \/ \E c \in Conns : AcceptBi(c)
    \/ \E c \in Conns, outcome \in {"chunk", "end", "error"} : BiRead(c, outcome)
    \/ \E c \in Conns, outcome \in {"sent", "write_failed", "finish_failed"} :
           SendAck(c, outcome)

SpecBi == InitConnect /\ [][NextBi]_vars

\* The chord as typed on the keypad.
KeypadChordKeys == {"ControlLeft", "Alt", "Kp0"}

\* A session ended by the hotkey typed with the keypad's 0: the presses
\* are forwarded, Shutdown finishes both streams, and the server reads
\* each stream to its end and simulates what its handlers enqueued.
NextChord ==
    \/ \E t \in Threads, key \in KeypadChordKeys :
           ~Forwarded(t, EncodeEvent("KeyPress", key)) /\ KeyPress(t, key)
    \/ \E t \in Threads : ThreadFinish(t)
    \/ \E t \in Threads : WorkerOpenMouse(t, TRUE)
    \/ \E t \in Threads : WorkerOpenKeyboard(t, TRUE)
    \/ \E t \in Threads : WorkerSend(t, TRUE)
    \/ \E t \in Threads, class \in Classes : AcceptUni(t, class)
    \/ \E t \in Threads, class \in Classes, outcome \in MoveOutcomes :
           ReadChunk(t, class, outcome)
    \/ \E t \in Threads, class \in Classes : ReadStops(t, class, "end")
    \/ SimulateKey

SpecChord == InitHotkey /\ [][NextChord]_vars

\* The events a peer encodes, as [kind, arg]: presses and releases of keys
\* and of buttons, wheel steps, and mouse deltas (in halves) that are zero,
\* negative, fractional and very large.
PeerEvents ==
    {[kind |-> "KeyPress", arg |-> "KeyA"], [kind |-> "KeyRelease", arg |-> "Num0"],
     [kind |-> "ButtonPress", arg |-> "Right"], [kind |-> "ButtonRelease", arg |-> "Left"],
     [kind |-> "Wheel", arg |-> <<0, -1>>],
     [kind |-> "MouseDelta", arg |-> <<0, 0>>],
     [kind |-> "MouseDelta", arg |-> <<21, -6>>],
     [kind |-> "MouseDelta", arg |-> <<-1, 2000000>>]}

\* The bytes the client's callback makes of an event.
Encode(e) ==
    IF e.kind = "MouseDelta" THEN EncodeMouseMove(e.arg[1], e.arg[2])
    ELSE EncodeEvent(e.kind, e.arg)

\* Chunks that are neither a mouse delta nor an event: another MessagePack
\* value, an array of the wrong length, a map naming no variant.
UnknownPayloads == {<<"nil">>, <<"array", 1>>, <<"map", "Bogus", 0>>}

PeerChunks == {Encode(e) : e \in PeerEvents} \cup UnknownPayloads

\* Chunks written on thread t's streams.
ChunksOf(t) == Len(written[t]["Mouse"]) + Len(written[t]["Keyboard"])

\* The server's reading of a session's two streams, whatever the peer
\* writes on them: events of every variant, mouse deltas and chunks of
\* neither shape, on either stream.
NextIngest ==
    \/ \E t \in Threads : WorkerOpenMouse(t, TRUE)
    \/ \E t \in Threads : WorkerOpenKeyboard(t, TRUE)
    \/ \E t \in Threads, class \in Classes, bytes \in PeerChunks :
           ChunksOf(t) < MaxChunks /\ PeerWrite(t, class, bytes)
    \/ \E t \in Threads, class \in Classes : AcceptUni(t, class)
    \/ \E t \in Threads, class \in Classes, outcome \in MoveOutcomes :
           ReadChunk(t, class, outcome)
    \/ SimulateKey
    \/ SimulateButton

SpecIngest == InitHotkey /\ [][NextIngest]_vars

\* The chunks of the injection view: a key press, a button press and a
\* mouse delta.
InjectChunks ==
    {EncodeEvent("KeyPress", "KeyA"), EncodeEvent("ButtonPress", "Right"),
     EncodeMouseMove(21, -6)}

\* The two simulator threads at work: the handlers of a session's streams
\* enqueue what they read while each thread takes its events one by one
\* into simulate(), which returns Ok or Err.
NextInject ==
    \/ \E t \in Threads : WorkerOpenMouse(t, TRUE)
    \/ \E t \in Threads : WorkerOpenKeyboard(t, TRUE)
    \/ \E t \in Threads, class \in Classes, bytes \in InjectChunks :
           ChunksOf(t) < MaxChunks /\ PeerWrite(t, class, bytes)
    \/ \E t \in Threads, class \in Classes : AcceptUni(t, class)
    \/ \E t \in Threads, class \in Classes, outcome \in MoveOutcomes :
           ReadChunk(t, class, outcome)
    \/ \E q \in Queues : BeginSimulate(q)
    \/ \E q \in Queues, ok \in BOOLEAN : EndSimulate(q, ok)

SpecInject == InitHotkey /\ [][NextInject]_vars

\* The same with the scheduling the operating system gives the two
\* simulator threads: each is a thread of its own that runs whenever it
\* has an event to take, and a simulate() call returns.
FairInject ==
    \A q \in Queues :
        /\ WF_vars(BeginSimulate(q))
        /\ WF_vars(\E ok \in BOOLEAN : EndSimulate(q, ok))

SpecInjectFair == InitHotkey /\ [][NextInject]_vars /\ FairInject

\* The server's admission of connections: clients connect, the accept
\* loop takes a permit for each, handle_connection runs its three tasks to
\* their end and gives the permit back.
NextAdmission ==
    \/ \E c \in Conns : Arrive(c)
    \/ Accept
    \/ Acquire
    \/ \E c \in Conns, ok \in BOOLEAN : Handshake(c, ok)
    \/ \E c \in Conns : ConnectionCloses(c)
    \/ \E c \in Conns, task \in Tasks, panicked \in BOOLEAN : TaskEnds(c, task, panicked)
    \/ \E c \in Conns, task \in Tasks : Join(c, task)

SpecAdmission == InitConnect /\ [][NextAdmission]_vars

\* The same under the scheduling the runtime gives: the accept loop and
\* every spawned task that can run does run (tokio polls ready tasks, and
\* the loop is the semaphore's only acquirer), a handshake ends with Ok or
\* Err, and the three tasks of a closed connection return.
FairAdmission ==
    /\ WF_vars(Accept)
    /\ WF_vars(Acquire)
    /\ \A c \in Conns : WF_vars(\E ok \in BOOLEAN : Handshake(c, ok))
    /\ \A c \in Conns, task \in Tasks : WF_vars(TaskEnds(c, task, FALSE))
    /\ \A c \in Conns, task \in Tasks : WF_vars(Join(c, task))

\* Admission without panics in the three tasks: they end when their
\* connection is closed.
NextAdmissionFair ==
    \/ \E c \in Conns : Arrive(c)
    \/ Accept
    \/ Acquire
    \/ \E c \in Conns, ok \in BOOLEAN : Handshake(c, ok)
    \/ \E c \in Conns : ConnectionCloses(c)
    \/ \E c \in Conns, task \in Tasks : TaskEnds(c, task, FALSE)
    \/ \E c \in Conns, task \in Tasks : Join(c, task)

SpecAdmissionFair == InitConnect /\ [][NextAdmissionFair]_vars /\ FairAdmission

\* ------------------------------------------------------------------ claims
\* The step in which thread t's callback reaches request_monitor_stop.
FiredStep(t) == result[t] # "stop" /\ result'[t] = "stop"

\* The step in which thread t's callback handles a press of `key`.
PressStep(t, key) ==
    thread[t] = "grabbing" /\ lastEvent' = Handled(t, "KeyPress", key)

\* C1: the disconnect action fires on an event if and only if the event is
\* a press of '0' or keypad-0 and, by the presses and releases seen before
\* it, left-control and left-alt are both held.
C1_HotkeyIffChord ==
    [][\A t \in Threads :
         FiredStep(t) <=>
           \E key \in Keys : /\ PressStep(t, key)
                             /\ IsHotkeyKey(key)
                             /\ ModifierKeys \subseteq heldKeys[t]]_vars

\* C1 witness: the hotkey has just fired on a press of keypad-0.
C1_Witness ==
    /\ result[1] = "stop"
    /\ lastEvent = Handled(1, "KeyPress", "Kp0")

\* C2 (as stated): in the step where the hotkey fires, no Keyboard command
\* is enqueued to the forwarder.
C2_HotkeyPressNotForwarded ==
    [][\A t \in Threads :
         FiredStep(t) =>
           \A i \in (Len(chan[t]) + 1)..Len(chan'[t]) :
               chan'[t][i].cmd # "Keyboard"]_vars

C4_DeltasEqualRealSamples ==
    osQueue = <<>> => deltasSent = realSeen

\* Threads whose capture loop exists: spawned, hooked, or ended with the
\* thread's closure still to run.
LiveThreads == {t \in Threads : thread[t] \in {"spawned", "grabbing", "returned"}}

\* C5: at most one capture loop exists at any time, and a start made while
\* one exists reports not started, spawns no thread and opens no streams.
C5_SingleCaptureLoop ==
    [][/\ Cardinality(LiveThreads') + Cardinality(Spawning') <= 1
       /\ lastEvent'.kind = "start_capture" =>
            IF LiveThreads # {} \/ Spawning # {}
            THEN /\ lastEvent'.key = "not_started"
                 /\ UNCHANGED <<monitorVars, workerVars>>
            ELSE /\ lastEvent'.key = "started"
                 /\ Cardinality(Spawning') = 1]_vars

\* C5 witness: a start has just been refused while a capture loop holds
\* the hook.
C5_Witness ==
    /\ lastEvent = Started(FALSE)
    /\ \E t \in Threads : thread[t] = "grabbing"

\* C6: the flag is never set with no capture loop running: once every
\* thread has ended (by hotkey, hook failure or panic) it is clear.
C6_FlagClearedAfterLoop ==
    (LiveThreads = {} /\ Spawning = {}) => ~MONITOR_RUNNING

\* C6 witness: a capture loop has ended and a later start spawned a new
\* one, which holds the hook.
C6_Witness ==
    /\ thread[1] = "done"
    /\ thread[2] = "grabbing"
    /\ MONITOR_RUNNING

\* C7 (as stated): when a capture loop that ended by the hotkey or by a
\* hook installation failure has terminated, the UI callback is queued or
\* the UI has already left the capture-active state.
C7_UINotifiedOnTermination ==
    [][\A t \in Threads :
         (thread[t] = "returned" /\ result[t] \in {"stop", "ok"} /\ thread'[t] = "done") =>
             (invokeQueue' > 0 \/ ~uiGrabbed')]_vars

\* The step in which the result of connect attempt a arrives.
ResultStep(a) == attempt[a].state = "inflight" /\ attempt'[a].state = "done"

\* C8: a connect result that arrives after the generation changed changes
\* nothing (no handler call, no stored connection, no status, spinner or
\* sensitivity change); with the generation unchanged it is surfaced.
C8_StaleResultDiscarded ==
    [][\A a \in Attempts :
         ResultStep(a) =>
           IF attempt[a].marker # session_id
           THEN UNCHANGED <<handlerCalls, connection, page, status, spinner, sensitive>>
           ELSE /\ ~spinner' /\ sensitive'
                /\ IF attempt'[a].outcome = "ok"
                   THEN /\ handlerCalls' = handlerCalls + 1
                        /\ connection' = a
                        /\ page' = "input"
                   ELSE /\ status' = "Failed to connect"
                        /\ UNCHANGED <<handlerCalls, connection, page>>]_vars

\* C8 witness: a successful connect result arrived after a reset and was
\* discarded, while a second attempt is still in flight.
C8_Witness ==
    /\ attempt[1].state = "done" /\ attempt[1].outcome = "ok"
    /\ attempt[1].marker # session_id
    /\ attempt[2].state = "inflight"
    /\ connection = 0 /\ handlerCalls = 0
    /\ spinner /\ ~sensitive

\* C9: close is issued at most once per established connection, and a
\* reset or shutdown with no stored connection issues none.
C9_CloseIdempotent ==
    [][/\ \A c \in Attempts : closeCalls'[c] <= 1
       /\ connection = 0 => closeCalls' = closeCalls]_vars

\* C9 witness: a connection was established and closed, and a further
\* reset or shutdown came after it.
C9_Witness ==
    /\ closeCalls[1] = 1
    /\ connection = 0
    /\ session_id = 2
    /\ attempt[1].marker = 0

\* The stream of one class of thread t's forwarder.
StreamOf(class, t) ==
    IF class = "Mouse" THEN mouse_stream[t] ELSE keyboard_stream[t]

\* C10: a failed write gives the class's stream up and leaves the worker
\* receiving and the connection stored; a stream given up stays so and no
\* write is attempted on it again, whatever is written on the other class.
C10_FailedClassDropped ==
    [][\A t \in Threads : \A class \in {"Mouse", "Keyboard"} :
         /\ lastWrite' = Written(t, class, FALSE) =>
               /\ StreamOf(class, t)' = "failed"
               /\ worker'[t] = "recv"
               /\ connection' = connection
         /\ StreamOf(class, t) = "failed" =>
               /\ StreamOf(class, t)' = "failed"
               /\ ~(lastWrite'.thread = t /\ lastWrite'.class = class)]_vars

\* C10 witness: the mouse stream has failed, a later mouse command was
\* dropped, and a keyboard command has just been written successfully.
C10_Witness ==
    /\ mouse_stream[1] = "failed"
    /\ keyboard_stream[1] = "open"
    /\ worker[1] = "recv"
    /\ deltasSent >= 2
    /\ chan[1] = <<>>
    /\ lastWrite = Written(1, "Keyboard", TRUE)

\* The step in which thread t's forwarder leaves its receive loop.
ExitStep(t) == worker[t] = "recv" /\ worker'[t] = "exited"

\* C11: the forwarder leaves its loop only on Shutdown or a closed channel;
\* in that step it finishes each stream it still holds, writes nothing and
\* drops what is queued; afterwards it writes nothing, and a finished
\* stream is never touched again.
C11_ShutdownFinishesStreams ==
    [][\A t \in Threads :
         /\ ExitStep(t) =>
              /\ \/ chan[t] # <<>> /\ Head(chan[t]) = Shutdown
                 \/ chan[t] = <<>> /\ ~quic_sender[t]
              /\ \A class \in {"Mouse", "Keyboard"} :
                   StreamOf(class, t)' =
                      IF StreamOf(class, t) = "open" THEN "finished"
                                                     ELSE StreamOf(class, t)
              /\ lastWrite' = NoWrite
              /\ chan'[t] = <<>>
         /\ worker[t] = "exited" =>
              /\ worker'[t] = "exited"
              /\ lastWrite'.thread # t
              /\ mouse_stream'[t] = mouse_stream[t]
              /\ keyboard_stream'[t] = keyboard_stream[t]
         /\ \A class \in {"Mouse", "Keyboard"} :
              StreamOf(class, t) = "finished" => StreamOf(class, t)' = "finished"]_vars

\* C11 witness: the forwarder has left its loop on Shutdown with the
\* keyboard stream given up after a failed write: only the mouse stream
\* was finished.
C11_Witness ==
    /\ worker[1] = "exited"
    /\ thread[1] = "returned" /\ result[1] = "stop"
    /\ mouse_stream[1] = "finished"
    /\ keyboard_stream[1] = "failed"

\* The step in which thread t's callback handles an event.
EventStep(t) ==
    /\ thread[t] = "grabbing"
    /\ lastEvent'.thread = t
    /\ lastEvent'.kind \in {"KeyPress", "KeyRelease", "MouseMove"}

\* The event handled in this step is one the callback sends on: every key
\* event, and a mouse sample that IGNORE_MOUSE does not swallow.
SendsOn == ~(lastEvent'.kind = "MouseMove" /\ IGNORE_MOUSE)

\* C12: while the hook is installed the callback can take an event in
\* every state of the forwarder; handling it changes nothing of the
\* forwarder, queues the command if the channel is open, and on a closed
\* channel drops the sender and discards the event; the loop goes on
\* unless the event was the hotkey.
C12_CallbackNeverWaits ==
    [][\A t \in Threads :
         /\ (thread[t] = "grabbing" /\ Len(chan[t]) <= MaxQueue + 1) =>
                ENABLED KeyPressBehind(t, "ControlLeft")
         /\ EventStep(t) =>
              /\ UNCHANGED <<worker, mouse_stream, keyboard_stream>>
              /\ (SendsOn /\ quic_sender[t] /\ worker[t] # "exited") =>
                    /\ Len(chan'[t]) > Len(chan[t])
                    /\ SubSeq(chan'[t], 1, Len(chan[t])) = chan[t]
              /\ (SendsOn /\ worker[t] = "exited") =>
                    /\ chan'[t] = chan[t]
                    /\ ~quic_sender'[t]
              /\ thread'[t] = "grabbing" \/ FiredStep(t)]_vars

\* C12 witness: the forwarder ended when its keyboard stream could not be
\* opened; a key press was discarded, the sender dropped, and the loop
\* still holds the hook.
C12_Witness ==
    /\ worker[1] = "exited"
    /\ mouse_stream[1] = "dropped"
    /\ thread[1] = "grabbing"
    /\ ~quic_sender[1]
    /\ chan[1] = <<>>
    /\ lastEvent = Handled(1, "KeyPress", "Alt")

\* The frames of the events among `entries` that handle_uni_stream decoded
\* from thread t's stream of class `class`, in their order.
RECURSIVE FramesFrom(_, _, _)
FramesFrom(entries, t, class) ==
    IF entries = <<>> THEN <<>>
    ELSE LET e == Head(entries)
             rest == FramesFrom(Tail(entries), t, class)
         IN  IF e.decoded /\ e.from = <<t, class>>
             THEN <<EncodeEvent(e.kind, e.arg)>> \o rest
             ELSE rest

IsPrefix(s, full) == Len(s) <= Len(full) /\ s = SubSeq(full, 1, Len(s))

Holders == {c \in Conns : HoldsPermit(c)}
Admitted == {c \in Conns : HoldsPermit(c) \/ stage[c] = "done"}

RECURSIVE Releases(_)
Releases(cs) ==
    IF cs = {} THEN 0
    ELSE LET c == CHOOSE x \in cs : TRUE IN released[c] + Releases(cs \ {c})

\* C14: the sessions holding a permit never outnumber the configured
\* capacity (holders and free permits always add up to it), and the
\* connections ever admitted never outnumber the capacity plus the permits
\* released so far: one release admits at most one more connection.
C14_PermitsBoundSessions ==
    /\ permits >= 0
    /\ Cardinality(Holders) <= max_connections
    /\ Cardinality(Holders) + permits = max_connections
    /\ Cardinality(Admitted) <= max_connections + Releases(Conns)

\* The pool is exhausted again by a connection that waited for a release.
C14_Witness ==
    /\ permits = 0
    /\ Cardinality(Holders) = max_connections
    /\ Releases(Conns) >= 1
    /\ \E c \in Holders : waited[c]

\* C15: a session's permit is dropped once and never twice, the drop does
\* not happen while any of its three tasks is still running (each ended,
\* normally or by a panic, or none was spawned because the handshake
\* failed), and a session that is done has dropped it.
C15_PermitReleasedOnceAfterTasks ==
    [][\A c \in Conns :
          /\ released'[c] \in {released[c], released[c] + 1}
          /\ released'[c] <= 1
          /\ released'[c] # released[c] =>
                 /\ \A task \in Tasks : tasks[c][task] # "running"
                 /\ permits' = permits + 1
          /\ stage'[c] = "done" => released'[c] = 1]_vars

\* One session ended by a failed handshake and another after a panicked
\* and a normally ended task; both dropped their permit.
C15_Witness ==
    \E c, d \in Conns :
        /\ released[c] = 1 /\ tasks[c]["bi"] = "none"
        /\ released[d] = 1 /\ tasks[d]["bi"] = "panicked" /\ tasks[d]["close"] = "done"

\* C16: a connection that arrives while every permit is in use is not
\* turned away: from waiting it only ever goes on to its handshake, and
\* once a permit is free or a session holding one has its connection
\* closed, the waiting connection is eventually admitted.
C16_WaitingEventuallyAdmitted ==
    /\ [][\A c \in Conns : stage[c] = "waiting" =>
                                stage'[c] \in {"waiting", "handshake"}]_vars
    /\ \A c \in Conns :
          (/\ stage[c] = "waiting"
           /\ permits > 0 \/ \E d \in Holders : closed[d])
              ~> HoldsPermit(c)

\* A connection that found no permit free has been admitted.
C16_Witness ==
    \E c \in Conns : waited[c] /\ stage[c] = "handshake" /\ held = 0

\* The entries among `entries` that the handler of thread t's stream of
\* class `class` enqueued, in their order.
RECURSIVE EntriesFrom(_, _, _)
EntriesFrom(entries, t, class) ==
    IF entries = <<>> THEN <<>>
    ELSE LET rest == EntriesFrom(Tail(entries), t, class)
         IN  IF Head(entries).from = <<t, class>> THEN <<Head(entries)>> \o rest ELSE rest

\* Everything the handler of the stream put on simulators[0], simulated
\* or still queued.
OnKeyboardQueue(t, class) == EntriesFrom(injected \o keyboardQueue, t, class)

\* C17: once a unidirectional stream has reached its natural end, every
\* frame written on it has been read, and what its handler put on the
\* keyboard queue ends with the releases of left control, alt and '0', in
\* that order and once each, after every event decoded from the stream;
\* this holds for a stream that reported none of these keys as pressed.
C17_FailsafeAfterNaturalEnd ==
    \A t \in Threads, class \in Classes :
        reader[t][class] = "ended" =>
            LET mine == OnKeyboardQueue(t, class)
                n == Len(mine)
            IN  /\ wire[t][class] = <<>>
                /\ n >= 3
                /\ SubSeq(mine, n - 2, n) = FailsafeReleases(t, class)
                /\ \A i \in 1..(n - 3) : mine[i].decoded

\* The mouse stream carried a button frame and no key at all, ended
\* naturally, and its three releases were simulated.
C17_Witness ==
    \E t \in Threads :
        /\ reader[t]["Mouse"] = "ended"
        /\ written[t]["Mouse"] # <<>>
        /\ EntriesFrom(injected, t, "Mouse") = FailsafeReleases(t, "Mouse")

\* The closing releases among `entries`.
RECURSIVE ReleasesIn(_)
ReleasesIn(entries) ==
    IF entries = <<>> THEN <<>>
    ELSE IF Head(entries).decoded THEN ReleasesIn(Tail(entries))
         ELSE <<Head(entries)>> \o ReleasesIn(Tail(entries))

\* C18: a unidirectional stream whose read loop ended on a read error has
\* no failsafe release on the keyboard queue: everything its handler
\* enqueued there was decoded from a frame.
C18_NoFailsafeOnReadError ==
    \A t \in Threads, class \in Classes :
        reader[t][class] = "failed" => ReleasesIn(OnKeyboardQueue(t, class)) = <<>>

\* The failsafe releases the server has enqueued for the session of
\* thread t's connection, over both of its streams.
SessionReleases(t) ==
    Len(ReleasesIn(OnKeyboardQueue(t, "Mouse"))) + Len(ReleasesIn(OnKeyboardQueue(t, "Keyboard")))

\* C19: in a session whose capture ran once and was stopped by the hotkey
\* (the worker finished both streams on Shutdown and the server saw both
\* end), the server has emitted three failsafe releases in total.
C19_ThreeReleasesPerSession ==
    \A t \in Threads :
        (/\ mouse_stream[t] = "finished" /\ keyboard_stream[t] = "finished"
         /\ reader[t]["Mouse"] = "ended" /\ reader[t]["Keyboard"] = "ended")
            => SessionReleases(t) = 3

\* The step in which the handler of thread t's stream of class `class`
\* takes the next frame off the stream.
ReadStep(t, class) ==
    /\ wire[t][class] # <<>>
    /\ wire'[t][class] = Tail(wire[t][class])
    /\ written' = written

ButtonKinds == {"ButtonPress", "ButtonRelease", "Wheel"}

\* C20: whatever stream a frame arrives on, the server treats it by its
\* content.  A frame the client encoded from a MouseMove changes neither
\* queue by a key, button or wheel event: it is applied as a relative move
\* by its (dx, dy), directly (in whole units) or as a move event enqueued
\* on simulators[1], or dropped.  A frame encoded from a button or wheel event is appended
\* to simulators[1]'s queue and a frame encoded from any other event to
\* simulators[0]'s, each as the event it was, and neither moves the mouse.
C20_FramesClassifiedByContent ==
    [][\A t \in Threads, class \in Classes :
          ReadStep(t, class) =>
              LET bytes == Head(wire[t][class])
              IN  IF bytes[1] = "array"
                  THEN /\ keyboardQueue' = keyboardQueue
                       /\ \/ buttonQueue' = buttonQueue /\ moves' \in {moves, Moved(as_i32(bytes[2]), as_i32(bytes[3]))}
                          \/ /\ moves' = moves
                             /\ buttonQueue' = Append(buttonQueue,
                                    Entry("MouseMove", <<bytes[2], bytes[3]>>, t, class, TRUE))
                  ELSE IF bytes[2] \in ButtonKinds
                  THEN /\ buttonQueue' = Append(buttonQueue,
                                                Entry(bytes[2], bytes[3], t, class, TRUE))
                       /\ keyboardQueue' = keyboardQueue /\ moves' = moves
                  ELSE /\ keyboardQueue' = Append(keyboardQueue,
                                                  Entry(bytes[2], bytes[3], t, class, TRUE))
                       /\ buttonQueue' = buttonQueue /\ moves' = moves]_vars

\* A mouse delta read from the mouse stream was applied as a move, and a
\* key press, on which the mouse-delta shape was tried first, went through
\* the keyboard queue and was simulated.
C20_Witness ==
    /\ moves.count >= 1
    /\ \E i \in 1..Len(injected) : injected[i].decoded /\ injected[i].kind = "KeyPress"

\* C29: once a session's connection is closed, its bidirectional listener,
\* its unidirectional listener and its close watcher all end, and the
\* session's permit is given back to the pool.
C29_ClosedSessionReturnsPermit ==
    \A c \in Conns :
        closed[c] ~> (/\ \A task \in Tasks : tasks[c][task] \in {"done", "panicked"}
                      /\ released[c] = 1
                      /\ stage[c] = "done")

\* A session whose connection closed has ended its three tasks normally
\* and dropped its permit, and the pool is full again.
C29_Witness ==
    \E c \in Conns :
        /\ closed[c]
        /\ \A task \in Tasks : tasks[c][task] = "done"
        /\ released[c] = 1
        /\ permits = max_connections

ValidationMessages ==
    {"IP address is required", "Port is required", "Invalid port number", "Invalid IP address"}

\* The step in which start_capture wins the flag and capture starts.
CaptureStarts == ~MONITOR_RUNNING /\ MONITOR_RUNNING'

\* C24: a click on the enter button that shows a validation message spawns
\* no connect attempt and stores nothing; a connect result that is a
\* failure and not stale shows the failure message and stores nothing; a
\* stored connection is always that of an attempt that succeeded and was
\* not stale; a capture request with nothing stored changes nothing, and
\* capture starts only with such a connection stored.
C24_FailedConnectStoresNothing ==
    [][/\ (status' \in ValidationMessages /\ status' # status) =>
              /\ attempt' = attempt /\ connection' = connection
              /\ MONITOR_RUNNING' = MONITOR_RUNNING
       /\ \A a \in Attempts :
              (ResultStep(a) /\ attempt'[a].outcome # "ok" /\ attempt[a].marker = session_id) =>
                  /\ status' = "Failed to connect"
                  /\ connection' = connection /\ page' = page
                  /\ MONITOR_RUNNING' = MONITOR_RUNNING
       /\ connection' # 0 =>
              /\ attempt'[connection'].state = "done"
              /\ attempt'[connection'].outcome = "ok"
              /\ attempt'[connection'].marker = session_id'
       /\ (lastEvent' = NotStarted) =>
              /\ connection = 0
              /\ UNCHANGED <<uiVars, connectVars, monitorVars, captureVars, workerVars>>
       /\ CaptureStarts =>
              /\ connection # 0
              /\ attempt[connection].outcome = "ok"
              /\ attempt[connection].marker = session_id]_vars

\* After a failed handshake the failure message is shown, nothing is
\* stored, and a click that requested capture has returned at once.
C24_Witness ==
    /\ status = "Failed to connect"
    /\ connection = 0
    /\ lastEvent = NotStarted
    /\ ~MONITOR_RUNNING /\ ~uiGrabbed

\* The streams of one class that forwarders have opened on the stored
\* connection so far.
OpenedStreams(class) == {t \in Threads : StreamOf(class, t) # "none"}

\* C25: over the life of the stored connection the client has opened at
\* most one mouse stream and one keyboard stream on it, however often
\* capture was stopped and started again.
C25_TwoStreamsPerSession ==
    /\ Cardinality(OpenedStreams("Mouse")) <= 1
    /\ Cardinality(OpenedStreams("Keyboard")) <= 1

\* The channel of thread t's forwarder takes the callback's sends.
ChannelOpen(t) == quic_sender[t] /\ worker[t] # "exited"

\* C23: whatever the modifier state, the callback forwards every button
\* press and release and every wheel event with a non-zero delta as a
\* mouse-class frame of that event (when its forwarder still takes
\* commands), forwards nothing for a wheel event with both deltas zero, and
\* in none of these cases changes the modifier state, fires the hotkey or
\* ends the capture loop.
C23_ButtonsWheelForwarded ==
    [][\A t \in Threads :
          (lastEvent'.thread = t /\ lastEvent'.kind \in ButtonKinds) =>
              /\ modifiers' = modifiers /\ heldKeys' = heldKeys
              /\ thread' = thread /\ result' = result
              /\ invokeQueue' = invokeQueue /\ MONITOR_RUNNING' = MONITOR_RUNNING
              /\ IF lastEvent'.kind = "Wheel" /\ lastEvent'.key = <<0, 0>>
                 THEN chan' = chan /\ quic_sender' = quic_sender
                 ELSE ChannelOpen(t) =>
                        chan'[t] = Append(chan[t],
                                      Mouse(EncodeEvent(lastEvent'.kind, lastEvent'.key)))]_vars

\* A button press was forwarded while control and alt were both held.
C23_Witness ==
    \E t \in Threads :
        /\ lastEvent = Handled(t, "ButtonPress", "Right")
        /\ ctrl_alt_active(modifiers[t])
        /\ chan[t] # <<>>
        /\ chan[t][Len(chan[t])] = Mouse(EncodeEvent("ButtonPress", "Right"))

\* What the handler of thread t's stream of class `class` has read so far.
ReadPrefix(t, class) ==
    SubSeq(written[t][class], 1, Len(written[t][class]) - Len(wire[t][class]))

\* C21: a chunk that decodes neither as a mouse delta nor as an event is
\* dropped: the step that reads it enqueues nothing, moves nothing, leaves
\* the stream's handler reading and every other stream and every session
\* as they were; and an event read on a stream after such a chunk is
\* still enqueued, as the event it is, on the queue of its class.
C21_UnknownChunkDropped ==
    [][\A t \in Threads, class \in Classes :
          ReadStep(t, class) =>
              LET bytes == Head(wire[t][class])
                  before == ReadPrefix(t, class)
              IN  /\ bytes \in UnknownPayloads =>
                        /\ replayVars' = replayVars
                        /\ admissionVars' = admissionVars
                        /\ simulatorVars' = simulatorVars
                        /\ \A u \in Threads, k \in Classes :
                               <<u, k>> # <<t, class>> => wire'[u][k] = wire[u][k]
                  /\ \A e \in PeerEvents :
                        (/\ e.kind # "MouseDelta"
                         /\ bytes = Encode(e)
                         /\ \E i \in 1..Len(before) : before[i] \in UnknownPayloads) =>
                            /\ reader' = reader
                            /\ IF e.kind \in {"ButtonPress", "ButtonRelease", "Wheel"}
                               THEN /\ buttonQueue' = Append(buttonQueue,
                                            Entry(e.kind, e.arg, t, class, TRUE))
                                    /\ keyboardQueue' = keyboardQueue
                               ELSE /\ keyboardQueue' = Append(keyboardQueue,
                                            Entry(e.kind, e.arg, t, class, TRUE))
                                    /\ buttonQueue' = buttonQueue]_vars

\* On one stream an unknown chunk was read and dropped, and the key press
\* written after it was read, enqueued and simulated.
C21_Witness ==
    \E t \in Threads, class \in Classes :
        /\ Len(ReadPrefix(t, class)) = 2
        /\ ReadPrefix(t, class)[1] \in UnknownPayloads
        /\ ReadPrefix(t, class)[2] = EncodeEvent("KeyPress", "KeyA")
        /\ reader[t][class] = "reading"
        /\ injected = <<Entry("KeyPress", "KeyA", t, class, TRUE)>>

C27_MoveEqualsDelta ==
    [][\A t \in Threads, class \in Classes :
          (ReadStep(t, class) /\ moves' # moves) =>
              LET delta == DecodeMouseMove(Head(wire[t][class]))
              IN  delta.ok /\ moves'.last = <<delta.dx, delta.dy>>]_vars

\* The events of the simulate() calls of queue q that have returned.
RECURSIVE AttemptsOf(_, _)
AttemptsOf(log, q) ==
    IF log = <<>> THEN <<>>
    ELSE LET rest == AttemptsOf(Tail(log), q)
         IN  IF Head(log).queue = q THEN <<Head(log).event>> \o rest ELSE rest

\* Every event ever enqueued on queue q, in the order of the enqueues:
\* those whose simulate() call returned, the one inside simulate(), and
\* those still in the channel.
History(q) == AttemptsOf(attempts, q) \o simulators[q].call \o QueueOf(q)

\* C26: each simulator has at most one simulate() call in progress at any
\* time, whichever handlers enqueue on it meanwhile, and it passes its
\* events to simulate() in the order they were enqueued: the events
\* already simulated, the one being simulated and those waiting always
\* form, in this order, the sequence of the enqueues, which only grows at
\* its end.
C26_OneCallPerQueueInOrder ==
    [][\A q \in Queues :
          /\ Len(simulators[q].call) <= 1
          /\ Len(simulators'[q].call) <= 1
          /\ IsPrefix(History(q), History(q)')]_vars

\* The button queue's thread is inside simulate() with the first of two
\* events that the handlers of two different streams enqueued, the second
\* waiting behind it.
C26_Witness ==
    /\ Len(simulators["button"].call) = 1
    /\ Len(buttonQueue) = 1
    /\ Head(simulators["button"].call).from # Head(buttonQueue).from

\* The simulate() calls in progress on the server.
InProgress == {q \in Queues : simulators[q].call # <<>>}

\* C28: no two injection calls are in progress on the server at the same
\* time, whatever their class: at most one simulator is inside simulate()
\* at any time, and the virtual mouse is not moved while one is.
C28_NoTwoInjectionsAtOnce ==
    [][/\ Cardinality(InProgress) <= 1
       /\ \A t \in Threads, class \in Classes :
              (ReadStep(t, class) /\ moves' # moves) => InProgress = {}]_vars

\* C30: a simulate() call that fails stops nothing: every call that
\* returns, with Ok or with Err, leaves its thread running and the
\* sequence of the queue's events as it was (nothing is dropped and
\* nothing passed twice), and every event enqueued on a queue is
\* eventually passed to simulate(), those enqueued after a failure too.
C30_FailureDoesNotStopWorker ==
    /\ [][\A q \in Queues :
             Len(AttemptsOf(attempts', q)) > Len(AttemptsOf(attempts, q)) =>
                 /\ simulators'[q].running
                 /\ History(q)' = History(q)]_vars
    /\ \A q \in Queues : \A n \in 1..(MaxChunks * MaxThreads) :
           (Len(History(q)) >= n) ~> (Len(AttemptsOf(attempts, q)) >= n)

\* The first simulate() call of the keyboard queue failed; the thread went
\* on and simulated the key press enqueued behind it.
C30_Witness ==
    /\ Len(attempts) = 2
    /\ attempts[1].queue = "keyboard" /\ ~attempts[1].ok
    /\ attempts[2].queue = "keyboard" /\ attempts[2].ok
    /\ simulators["keyboard"].running

\* Thread t's callback has sent Shutdown: it is in the channel, or the
\* forwarder has taken it and ended.
ShutdownSent(t) ==
    \/ \E i \in 1..Len(chan[t]) : chan[t][i] = Shutdown
    \/ result[t] = "stop"

\* C38: once the callback has sent Shutdown for the hotkey, nothing more
\* is put on its channel: whatever event still reaches the callback, the
\* channel only loses commands to the forwarder, and while Shutdown waits
\* in the channel it is the last command there.
C38_ShutdownIsLastCommand ==
    [][\A t \in Threads :
          /\ ShutdownSent(t) =>
                \E n \in 0..Len(chan[t]) :
                    chan'[t] = SubSeq(chan[t], n + 1, Len(chan[t]))
          /\ \A i \in 1..Len(chan'[t]) :
                chan'[t][i] = Shutdown => i = Len(chan'[t])]_vars

\* A key release reached the callback after the hotkey while Shutdown was
\* still waiting in the channel of a running forwarder.
C38_Witness ==
    \E t \in Threads :
        /\ lastEvent.thread = t /\ lastEvent.kind = "KeyRelease"
        /\ thread[t] = "returned" /\ result[t] = "stop"
        /\ worker[t] # "exited"
        /\ chan[t] # <<>> /\ chan[t][Len(chan[t])] = Shutdown

\* C35: the 'ignore next' flag does not carry over between capture loops:
\* the first real mouse sample a capture loop's callback receives is
\* emitted as a mouse delta, not swallowed.
C35_FirstSampleEmitted ==
    [][\A t \in Threads :
          (lastEvent' = Handled(t, "MouseMove", "real") /\ loopSeen[t] = 0) =>
              deltasSent' = deltasSent + 1]_vars

C37_NoHandlerAtRelease ==
    [][\A c \in Conns :
          released'[c] > released[c] => biStream'[c].state \notin {"reading", "ack"}]_vars

\* C32: while a session's keyboard stream is open and its handler has not
\* stopped reading, no closing release is enqueued for that session: the
\* end of the session's mouse stream puts no release of control, alt or
\* '0' among the keyboard stream's events.
C32_NoReleaseWhileKeyboardOpen ==
    [][\A t \in Threads :
          (/\ keyboard_stream[t] = "open"
           /\ reader[t]["Keyboard"] \in {"none", "reading"}) =>
              ReleasesIn(EntriesFrom(keyboardQueue', t, "Mouse"))
                  = ReleasesIn(EntriesFrom(keyboardQueue, t, "Mouse"))]_vars

\* The session of thread t was ended by the hotkey and the server is done
\* with it: Shutdown finished both streams, both handlers read to the end,
\* and everything they enqueued on the keyboard queue has been simulated.
EndedByHotkey(t) ==
    /\ mouse_stream[t] = "finished" /\ keyboard_stream[t] = "finished"
    /\ reader[t]["Mouse"] = "ended" /\ reader[t]["Keyboard"] = "ended"
    /\ \A i \in 1..Len(keyboardQueue) : keyboardQueue[i].from[1] # t

\* C33: after a session ended by the hotkey no key of the chord is left
\* pressed on the server: every simulated press of left control, of alt
\* and of the '0' or keypad-0 key that was pressed for the session is
\* followed by a simulated release of the same key.
C33_NoChordKeyLeftPressed ==
    \A t \in Threads :
        EndedByHotkey(t) =>
            \A i \in 1..Len(injected) :
                (/\ injected[i].from[1] = t
                 /\ injected[i].kind = "KeyPress"
                 /\ injected[i].arg \in {"ControlLeft", "Alt", "Num0", "Kp0"}) =>
                    \E j \in (i + 1)..Len(injected) :
                        /\ injected[j].from[1] = t
                        /\ injected[j].kind = "KeyRelease"
                        /\ injected[j].arg = injected[i].arg

\* C34: what is written on a session's mouse stream is applied in the
\* order written: when a mouse delta read from the stream moves the
\* device, every button and wheel event read from the stream before it
\* has been injected, none is still waiting in the button queue.
C34_MouseStreamAppliedInOrder ==
    [][\A t \in Threads :
          (ReadStep(t, "Mouse") /\ moves' # moves) =>
              \A i \in 1..Len(buttonQueue) : buttonQueue[i].from # <<t, "Mouse">>]_vars

\* C36: a capture loop never outlives its session: when the stored
\* connection is taken away by a reset or a shutdown, no capture loop is
\* left grabbing input, and the monitor flag is free for the start request
\* that follows the next connect.
C36_LoopEndsWithSession ==
    [][(connection # 0 /\ connection' = 0) =>
           /\ \A t \in Threads : thread'[t] # "grabbing"
           /\ ~MONITOR_RUNNING']_vars

\* C39: the capture indicator agrees with the capture loop: the UI never
\* shows 'not capturing' while a capture loop is grabbing input, whatever
\* clicks, start requests and hotkey stops came before.
C39_IndicatorAgrees ==
    (\E t \in Threads : thread[t] = "grabbing") => uiGrabbed

====
